---- MODULE Spec2Model ----
(***************************************************************************)
(* A model of cc-redis: the dynamic Value type, the RESP-like wire codec   *)
(* (serializer.rs, deserializer.rs) and the command engine over the        *)
(* expiring store (commands.rs), as driven by the server loop (server.rs). *)
(*                                                                         *)
(* Conventions.  A byte buffer and a Rust String are sequences of          *)
(* one-character strings.  Option<T> is a sequence of length 0 (None) or 1 *)
(* (Some).  A BTreeMap is the set of its [k, e] pairs.  The static message  *)
(* of a command error is kept as one token of the error line.              *)
(***************************************************************************)
EXTENDS Integers, Sequences, FiniteSets, TLC

VARIABLES
    store,      \* App.store : BTreeMap<Value, Entry>
    config,     \* App.config : BTreeMap<String, String>
    now,        \* the wall clock, milliseconds since the epoch
    alive,      \* the server process is running (no panic has unwound main)
    op,         \* the operation that produced this state
    req,        \* the request Value of the last dispatch_command call
    ret,        \* what the command handler of that call returned
    resp,       \* what dispatch_command returned to the connection
    written,    \* history: per key, the arguments of the last set that returned OK
    replaced,   \* history: what the last set found under its key before it stored
    input,      \* the byte buffer handed to the decoder
    decoded,    \* the result of from_bytes on input
    target,     \* the type T of from_bytes::<T>
    prev,       \* history: the kind of the response written before the last one
    configured, \* history: per name, the value of the last config set that returned OK
    lock,       \* the holder of the store Mutex, if it is held
    tasks,      \* the concurrent callers of one App: position and locals of each
    built,      \* history: the entries that the set calls have built
    given,      \* the value (or values) handed to the encoder or to the ordering
    outcome,    \* what the encoder, or the comparison, returned for given
    config_lock, \* the holder of the settings Mutex, if it is held
    conns,      \* the client connections of the listener: state and traffic of each
    serving     \* the connection main is inside handle_connection for, if any

vars ==
    <<store, config, now, alive, op, req, ret, resp, written, replaced, input,
      decoded, target, prev, configured, lock, tasks, built, given, outcome,
      config_lock, conns, serving>>

\* the decoder's variables, and those of the concurrent callers
codecVars == <<input, decoded, target, given, outcome>>
taskVars == <<lock, tasks, built, config_lock>>
serverVars == <<conns, serving>>

---------------------------------------------------------------------------
(* Bounds of the model. *)

\* the clock runs from 0 to MaxTime
MaxTime == 2

---------------------------------------------------------------------------
(* Option, bytes, text *)

None == <<>>
Some(x) == <<x>>

CR == "\r"
LF == "\n"
CRLF == <<CR, LF>>

DigitChar == <<"0", "1", "2", "3", "4", "5", "6", "7", "8", "9">>
UpperChar == <<"A", "B", "C", "D", "E", "F", "G", "H", "I", "J", "K", "L", "M",
               "N", "O", "P", "Q", "R", "S", "T", "U", "V", "W", "X", "Y", "Z">>
LowerChar == <<"a", "b", "c", "d", "e", "f", "g", "h", "i", "j", "k", "l", "m",
               "n", "o", "p", "q", "r", "s", "t", "u", "v", "w", "x", "y", "z">>

IsDigit(c) == \E i \in DOMAIN DigitChar : DigitChar[i] = c
DigitVal(c) == (CHOOSE i \in DOMAIN DigitChar : DigitChar[i] = c) - 1

\* u8::to_ascii_lowercase / char::to_lowercase on ASCII
to_ascii_lowercase_char(c) ==
    IF \E i \in DOMAIN UpperChar : UpperChar[i] = c
    THEN LowerChar[CHOOSE i \in DOMAIN UpperChar : UpperChar[i] = c]
    ELSE c

to_lowercase(s) == [i \in DOMAIN s |-> to_ascii_lowercase_char(s[i])]

eq_ignore_ascii_case(a, b) == to_lowercase(a) = to_lowercase(b)

\* Display of an unsigned integer
RECURSIVE NatToChars(_)
NatToChars(n) ==
    IF n < 10 THEN <<DigitChar[n + 1]>>
    ELSE NatToChars(n \div 10) \o <<DigitChar[(n % 10) + 1]>>

\* Display of i64 / usize, as write!("{v}") prints it
IntToChars(i) == IF i < 0 THEN <<"-">> \o NatToChars(-i) ELSE NatToChars(i)

RECURSIVE DigitsToNat(_)
DigitsToNat(s) ==
    IF s = <<>> THEN 0
    ELSE DigitsToNat(SubSeq(s, 1, Len(s) - 1)) * 10 + DigitVal(s[Len(s)])

\* str::parse::<i64>: an optional sign, then one or more digits and nothing
\* else.  (The texts of the model are too short to overflow 64 bits.)
parse_i64(s) ==
    LET signed == s # <<>> /\ s[1] \in {"+", "-"}
        ds == IF signed THEN Tail(s) ELSE s
    IN  IF ds = <<>> \/ \E i \in DOMAIN ds : ~IsDigit(ds[i]) THEN None
        ELSE IF signed /\ s[1] = "-" THEN Some(-DigitsToNat(ds))
        ELSE Some(DigitsToNat(ds))

contains_crlf(s) == \E i \in 1..(Len(s) - 1) : s[i] = CR /\ s[i + 1] = LF

---------------------------------------------------------------------------
(* value.rs: enum Value *)

VInt(i) == [tag |-> "Int", int |-> i]
VBool(b) == [tag |-> "Bool", bool |-> b]
VString(o) == [tag |-> "String", str |-> o]
VArray(o) == [tag |-> "Array", arr |-> o]
\* a Map is the sequence of its <<key, value>> pairs in key order
VMap(m) == [tag |-> "Map", map |-> m]
VNull == [tag |-> "Null"]

\* Value::str
Value_str(s) == VString(Some(s))

\* Value::get_str
get_str(v) == IF v.tag = "String" THEN v.str ELSE None

\* #[derive(PartialOrd, Ord)]: std::cmp::Ordering of two Values.  The derive
\* compares the variants by their position in the enum, and the fields of one
\* variant by the Ord of their types.
Less == "Less"
Equal == "Equal"
Greater == "Greater"

\* Ord for i64 and usize
int_cmp(a, b) == IF a < b THEN Less ELSE IF a > b THEN Greater ELSE Equal

\* the position of NullFirst: as if Null, the default, were the first variant
variant_rank_NullFirst(v) ==
    CASE v.tag = "Null" -> 0
      [] v.tag = "Int" -> 1
      [] v.tag = "Bool" -> 2
      [] v.tag = "String" -> 3
      [] v.tag = "Array" -> 4
      [] v.tag = "Map" -> 5

\* the discriminant of a variant: its position in the declaration
variant_rank(v) ==
    CASE v.tag = "Int" -> 0
      [] v.tag = "Bool" -> 1
      [] v.tag = "String" -> 2
      [] v.tag = "Array" -> 3
      [] v.tag = "Map" -> 4
      [] v.tag = "Null" -> 5

\* the byte of an ASCII digit, letter, CR or LF
byte(c) ==
    IF c = CR THEN 13
    ELSE IF c = LF THEN 10
    ELSE IF \E i \in DOMAIN DigitChar : DigitChar[i] = c
    THEN 47 + (CHOOSE i \in DOMAIN DigitChar : DigitChar[i] = c)
    ELSE IF \E i \in DOMAIN UpperChar : UpperChar[i] = c
    THEN 64 + (CHOOSE i \in DOMAIN UpperChar : UpperChar[i] = c)
    ELSE 96 + (CHOOSE i \in DOMAIN LowerChar : LowerChar[i] = c)

\* Ord for bool: false < true
bool_cmp(a, b) == int_cmp(IF a THEN 1 ELSE 0, IF b THEN 1 ELSE 0)

RECURSIVE str_cmp(_, _)
\* Ord for String: the bytes, lexicographically
str_cmp(a, b) ==
    IF a = <<>> /\ b = <<>> THEN Equal
    ELSE IF a = <<>> THEN Less
    ELSE IF b = <<>> THEN Greater
    ELSE IF byte(Head(a)) # byte(Head(b)) THEN int_cmp(byte(Head(a)), byte(Head(b)))
    ELSE str_cmp(Tail(a), Tail(b))

RECURSIVE Value_cmp(_, _), vec_cmp(_, _), map_cmp(_, _)
Value_cmp(a, b) ==
    IF variant_rank(a) # variant_rank(b)
    THEN int_cmp(variant_rank(a), variant_rank(b))
    ELSE CASE a.tag = "Int" -> int_cmp(a.int, b.int)
           [] a.tag = "Bool" -> bool_cmp(a.bool, b.bool)
           [] a.tag = "String" ->
                \* Ord for Option: None < Some
                IF a.str = None \/ b.str = None THEN int_cmp(Len(a.str), Len(b.str))
                ELSE str_cmp(a.str[1], b.str[1])
           [] a.tag = "Array" ->
                IF a.arr = None \/ b.arr = None THEN int_cmp(Len(a.arr), Len(b.arr))
                ELSE vec_cmp(a.arr[1], b.arr[1])
           [] a.tag = "Map" -> map_cmp(a.map, b.map)
           [] a.tag = "Null" -> Equal

\* Ord for Vec<Value>: the elements, lexicographically
vec_cmp(a, b) ==
    IF a = <<>> /\ b = <<>> THEN Equal
    ELSE IF a = <<>> THEN Less
    ELSE IF b = <<>> THEN Greater
    ELSE LET h == Value_cmp(Head(a), Head(b))
         IN  IF h # Equal THEN h ELSE vec_cmp(Tail(a), Tail(b))

\* Ord for BTreeMap<Value, Value>: the (key, value) pairs in key order,
\* lexicographically, a pair by its key and then by its value
map_cmp(a, b) ==
    IF a = <<>> /\ b = <<>> THEN Equal
    ELSE IF a = <<>> THEN Less
    ELSE IF b = <<>> THEN Greater
    ELSE LET k == Value_cmp(Head(a)[1], Head(b)[1])
             v == Value_cmp(Head(a)[2], Head(b)[2])
         IN  IF k # Equal THEN k
             ELSE IF v # Equal THEN v
             ELSE map_cmp(Tail(a), Tail(b))

---------------------------------------------------------------------------
(* serializer.rs: to_bytes of a Value, or of a &str.                       *)
(* The result is [st |-> "ok", out |-> bytes], [st |-> "err"] with the     *)
(* serializer's Error, or [st |-> "panic"] when a todo!() is reached.      *)

SerOk(b) == [st |-> "ok", out |-> b]
SerPanic == [st |-> "panic", out |-> <<>>]
SerErr(e) == [st |-> "err", out |-> <<>>, err |-> e]

\* serializer::Error
IntOverflow(v) == [e |-> "IntOverflow", v |-> v]
LengthRequired == [e |-> "LengthRequired"]

serialize_bool(b) == SerOk(<<"#", IF b THEN "t" ELSE "f">> \o CRLF)

serialize_i64(v) == SerOk(<<":">> \o IntToChars(v) \o CRLF)

serialize_bytes(v) == SerOk(<<"$">> \o IntToChars(Len(v)) \o CRLF \o v \o CRLF)

serialize_str(v) ==
    IF contains_crlf(v) THEN serialize_bytes(v)
    ELSE SerOk(<<"+">> \o v \o CRLF)

serialize_none == SerOk(<<"$", "-", "1">> \o CRLF)

serialize_unit == SerPanic

\* len: Option<usize>, the count the value announces before its elements
serialize_seq(len) ==
    IF len = None THEN SerErr(LengthRequired)
    ELSE SerOk(<<"*">> \o IntToChars(len[1]) \o CRLF)

serialize_map(len) ==
    IF len = None THEN SerErr(LengthRequired)
    ELSE SerOk(<<"%">> \o IntToChars(len[1]) \o CRLF)

\* a u64 is its decimal digits, most significant first and without leading
\* zeros; i64::MAX in the same form
I64_MAX == <<"9", "2", "2", "3", "3", "7", "2", "0", "3", "6", "8", "5", "4", "7",
             "7", "5", "8", "0", "7">>

RECURSIVE DigitsGreater(_, _)
\* a > b for two digit strings of one length
DigitsGreater(a, b) ==
    IF a = <<>> THEN FALSE
    ELSE IF Head(a) # Head(b) THEN DigitVal(Head(a)) > DigitVal(Head(b))
    ELSE DigitsGreater(Tail(a), Tail(b))

\* i64::try_from(v).is_err()
exceeds_i64(v) ==
    \/ Len(v) > Len(I64_MAX)
    \/ Len(v) = Len(I64_MAX) /\ DigitsGreater(v, I64_MAX)

serialize_u64(v) ==
    IF exceeds_i64(v) THEN SerErr(IntOverflow(v))
    ELSE SerOk(<<":">> \o v \o CRLF)

\* the output so far followed by the next part; an error (the ? operator) or
\* a panic in either ends the call with it
SerThen(a, b) ==
    IF a.st # "ok" THEN a
    ELSE IF b.st # "ok" THEN b
    ELSE SerOk(a.out \o b.out)

RECURSIVE FlattenPairs(_)
FlattenPairs(m) ==
    IF m = <<>> THEN <<>> ELSE <<m[1][1], m[1][2]>> \o FlattenPairs(Tail(m))

RECURSIVE Value_serialize(_), serialize_elements(_), serialize(_)
\* the derived, untagged Serialize of Value: each variant serializes its field,
\* the unit variant Null calls serialize_unit
Value_serialize(v) ==
    CASE v.tag = "Int" -> serialize_i64(v.int)
      [] v.tag = "Bool" -> serialize_bool(v.bool)
      [] v.tag = "String" ->
            IF v.str = None THEN serialize_none ELSE serialize_str(v.str[1])
      [] v.tag = "Array" ->
            IF v.arr = None THEN serialize_none
            ELSE SerThen(serialize_seq(Some(Len(v.arr[1]))),
                         serialize_elements(v.arr[1]))
      [] v.tag = "Map" ->
            SerThen(serialize_map(Some(Len(v.map))),
                    serialize_elements(FlattenPairs(v.map)))
      [] v.tag = "Null" -> serialize_unit

\* SerializeSeq::serialize_element / SerializeMap::serialize_key, _value in turn
serialize_elements(xs) ==
    IF xs = <<>> THEN SerOk(<<>>)
    ELSE LET h == serialize(Head(xs))
         IN  IF h.st # "ok" THEN h
             ELSE SerThen(h, serialize_elements(Tail(xs)))

\* T::serialize for the T that to_bytes is given: a Value, a u64, or a
\* sequence or map that serde collects from an iterator whose size_hint is
\* not exact, so that serialize_seq and serialize_map get no length
serialize(x) ==
    CASE x.tag = "U64" -> serialize_u64(x.digits)
      [] x.tag = "IterSeq" -> SerThen(serialize_seq(None), serialize_elements(x.items))
      [] x.tag = "IterMap" -> SerThen(serialize_map(None), serialize_elements(x.items))
      [] OTHER -> Value_serialize(x)

\* serializer::to_bytes
to_bytes(v) == serialize(v)

---------------------------------------------------------------------------
(* commands.rs: Entry, the store and the settings *)

Entry(value, expiry) == [value |-> value, expiry |-> expiry]

\* Entry::new
Entry_new(value) == Entry(value, None)

\* #[derive(Default)] for Entry: Value::default() is Null, no expiry
Entry_default == Entry(VNull, None)

\* is_expired with an entry that has no expiry taken as expired
Entry_is_expired_NoExpiry(e, t) == IF e.expiry = None THEN TRUE ELSE t > e.expiry[1]

\* is_expired with the deadline itself taken as passed (now >= expiry)
Entry_is_expired_AtDeadline(e, t) ==
    IF e.expiry = None THEN FALSE ELSE t >= e.expiry[1]

\* Entry::is_expired, the clock reading t
Entry_is_expired(e, t) == IF e.expiry = None THEN FALSE ELSE t > e.expiry[1]

\* Entry::expires_in, the clock reading t
Entry_expires_in(e, ms, t) == [e EXCEPT !.expiry = Some(t + ms)]

\* BTreeMap::insert, ::get, ::remove
BTreeMap_insert(m, k, e) == {p \in m : p.k # k} \cup {[k |-> k, e |-> e]}

BTreeMap_get(m, k) ==
    IF \E p \in m : p.k = k THEN Some((CHOOSE p \in m : p.k = k).e) ELSE None

BTreeMap_remove(m, k) == {p \in m : p.k # k}

\* App::prune_expired under one hold of the store lock.  is_expired reads the
\* clock once per entry: reading[p] is the clock when entry p is examined.
expired_keys(m, reading) ==
    {p.k : p \in {q \in m : Entry_is_expired(q.e, reading[q])}}

prune_expired(m, reading) == {p \in m : p.k \notin expired_keys(m, reading)}

---------------------------------------------------------------------------
(* commands.rs: enum Error and its Display *)

GenericStatic(m) == [variant |-> "GenericStatic", msg |-> m, text |-> <<>>]
InvalidReq(m) == [variant |-> "InvalidReq", msg |-> m, text |-> <<>>]
TypeError(m) == [variant |-> "TypeError", msg |-> m, text |-> <<>>]
UnknownCommand(s) == [variant |-> "UnknownCommand", msg |-> "", text |-> s]

\* #[error("-CATEGORY {0}")]
Error_category(e) ==
    CASE e.variant = "GenericStatic" -> "ERR"
      [] e.variant = "InvalidReq" -> "INVALIDREQ"
      [] e.variant = "TypeError" -> "WRONGTYPE"
      [] e.variant = "UnknownCommand" -> "UNKNOWN"

Error_to_string(e) ==
    IF e.variant = "UnknownCommand"
    THEN <<"-", Error_category(e), " ">> \o e.text
    ELSE <<"-", Error_category(e), " ", e.msg>>

\* Resp<T> = Result<T, Error>
Ok(v) == [ok |-> TRUE, val |-> v]
Err(e) == [ok |-> FALSE, err |-> e]

---------------------------------------------------------------------------
(* commands.rs: argument parsing *)

S_px == <<"p", "x">>
S_get == <<"g", "e", "t">>
S_set == <<"s", "e", "t">>
S_ping == <<"p", "i", "n", "g">>
S_echo == <<"e", "c", "h", "o">>
S_config == <<"c", "o", "n", "f", "i", "g">>
S_OK == <<"O", "K">>
S_PONG == <<"P", "O", "N", "G">>

\* arg.get_str().is_some_and(|x| CaseInsensitive(x) == "px")
IsPx(arg) == get_str(arg) # None /\ eq_ignore_ascii_case(get_str(arg)[1], S_px)

\* expiry.get_str().and_then(|x| x.parse::<i64>().ok())
ExpiryArg(arg) == IF get_str(arg) = None THEN None ELSE parse_i64(get_str(arg)[1])

\* the while-let loop of SetArgs::from_args over the arguments after the
\* value; expiry is out.expiry so far
RECURSIVE PxLoop(_, _)
PxLoop(args, expiry) ==
    IF args = <<>> THEN Ok(expiry)
    ELSE IF IsPx(Head(args))
    THEN IF Len(args) = 1 THEN Err(GenericStatic("PX expects expiry."))
         ELSE IF ExpiryArg(args[2]) = None
         THEN Err(TypeError("expiry must be an int"))
         ELSE PxLoop(SubSeq(args, 3, Len(args)), Some(ExpiryArg(args[2])[1]))
    ELSE PxLoop(Tail(args), expiry)

\* SetArgs::from_args
SetArgs_from_args(args) ==
    IF Len(args) = 0 THEN Err(GenericStatic("set is missing key"))
    ELSE IF Len(args) = 1 THEN Err(GenericStatic("set is missing value argument"))
    ELSE LET r == PxLoop(SubSeq(args, 3, Len(args)), None)
         IN  IF r.ok
             THEN Ok([key |-> args[1], val |-> args[2], expiry |-> r.val])
             ELSE r

\* ConfigArgs::from_args: Ok(<<"Get", k>>) or Ok(<<"Set", k, v>>)
ConfigArgs_from_args(args) ==
    IF Len(args) = 0 THEN Err(GenericStatic("config requires verb (get/set)"))
    ELSE IF get_str(args[1]) = None THEN Err(GenericStatic("verb must be string"))
    ELSE LET verb == to_lowercase(get_str(args[1])[1])
             rest == Tail(args)
         IN  IF verb = S_get
             THEN IF Len(rest) # 1
                  THEN Err(GenericStatic("config get requires exactly one parameter"))
                  ELSE IF get_str(rest[1]) = None
                  THEN Err(GenericStatic("config get key must be string"))
                  ELSE Ok(<<"Get", get_str(rest[1])[1]>>)
             ELSE IF verb = S_set
             THEN IF Len(rest) # 2
                  THEN Err(GenericStatic("config set requires exactly two parameters"))
                  ELSE IF get_str(rest[1]) = None
                  THEN Err(GenericStatic("config set key must be string"))
                  ELSE IF get_str(rest[2]) = None
                  THEN Err(GenericStatic("config set value must be string"))
                  ELSE Ok(<<"Set", get_str(rest[1])[1], get_str(rest[2])[1]>>)
             ELSE Err(GenericStatic("config requires verb (get/set)"))

---------------------------------------------------------------------------
(* commands.rs: the handlers.  Each yields [ret, store, config]: what the  *)
(* handler returns and the maps it leaves.  t is the clock reading.        *)

Handled(r, m, c) == [ret |-> r, store |-> m, config |-> c]

\* set_config that keeps the value a name already has
App_set_config_KeepsFirst(c, key, value) ==
    IF \E p \in c : p.k = key THEN c ELSE BTreeMap_insert(c, key, value)

\* App::set_config
App_set_config(c, key, value) == BTreeMap_insert(c, key, value)

\* App::ping
App_ping(m, c) == Handled(Ok(Value_str(S_PONG)), m, c)

\* App::echo
App_echo(m, c, argv) ==
    IF Len(argv) # 1
    THEN Handled(Err(InvalidReq("echo expects exactly one argument")), m, c)
    ELSE Handled(Ok(argv[1]), m, c)

\* args.expiry.and_then(|x| x.try_into().ok()): i64 to u128 fails below zero
ExpiryAsU128(expiry) ==
    IF expiry # None /\ expiry[1] >= 0 THEN Some(expiry[1]) ELSE None

\* set that keeps the expiry of the entry it replaces when no PX is given
App_set_KeepsExpiry(m, c, argv, t) ==
    LET args == SetArgs_from_args(argv)
    IN  IF ~args.ok THEN Handled(args, m, c)
        ELSE LET old == BTreeMap_get(m, args.val.key)
                 e0 == IF old = None THEN Entry_new(args.val.val)
                       ELSE Entry(args.val.val, old[1].expiry)
                 ms == ExpiryAsU128(args.val.expiry)
                 entry == IF ms # None THEN Entry_expires_in(e0, ms[1], t) ELSE e0
             IN  Handled(Ok(Value_str(S_OK)),
                         BTreeMap_insert(m, args.val.key, entry), c)

\* set that stores key and value before it looks at the arguments behind them
App_set_StoresFirst(m, c, argv, t) ==
    LET args == SetArgs_from_args(argv)
    IN  IF ~args.ok /\ Len(argv) >= 2
        THEN Handled(args, BTreeMap_insert(m, argv[1], Entry_new(argv[2])), c)
        ELSE IF ~args.ok THEN Handled(args, m, c)
        ELSE LET e0 == Entry_new(args.val.val)
                 ms == ExpiryAsU128(args.val.expiry)
                 entry == IF ms # None THEN Entry_expires_in(e0, ms[1], t) ELSE e0
             IN  Handled(Ok(Value_str(S_OK)),
                         BTreeMap_insert(m, args.val.key, entry), c)

\* App::set
App_set(m, c, argv, t) ==
    LET args == SetArgs_from_args(argv)
    IN  IF ~args.ok THEN Handled(args, m, c)
        ELSE LET e0 == Entry_new(args.val.val)
                 ms == ExpiryAsU128(args.val.expiry)
                 entry == IF ms # None THEN Entry_expires_in(e0, ms[1], t) ELSE e0
             IN  Handled(Ok(Value_str(S_OK)),
                         BTreeMap_insert(m, args.val.key, entry), c)

\* get that drops the expired entry it finds
App_get_RemovesExpired(m, c, argv, t) ==
    IF Len(argv) # 1
    THEN Handled(Err(InvalidReq("get expects exactly one argument")), m, c)
    ELSE LET found == BTreeMap_get(m, argv[1])
             v == IF found = None THEN Entry_default ELSE found[1]
         IN  IF Entry_is_expired(v, t)
             THEN Handled(Ok(VNull), BTreeMap_remove(m, argv[1]), c)
             ELSE Handled(Ok(v.value), m, c)

\* App::get
App_get(m, c, argv, t) ==
    IF Len(argv) # 1
    THEN Handled(Err(InvalidReq("get expects exactly one argument")), m, c)
    ELSE LET found == BTreeMap_get(m, argv[1])
             v == IF found = None THEN Entry_default ELSE found[1]
         IN  IF Entry_is_expired(v, t) THEN Handled(Ok(VNull), m, c)
             ELSE Handled(Ok(v.value), m, c)

\* config that keeps the settings in the store as well
App_config_TouchesStore(m, c, argv) ==
    LET args == ConfigArgs_from_args(argv)
    IN  IF ~args.ok THEN Handled(args, m, c)
        ELSE IF args.val[1] = "Get"
        THEN LET k == args.val[2]
                 config_value == VString(BTreeMap_get(c, k))
             IN  Handled(Ok(VArray(Some(<<VString(Some(k)), config_value>>))), m, c)
        ELSE Handled(Ok(Value_str(S_OK)),
                     BTreeMap_insert(m, Value_str(args.val[2]),
                                     Entry_new(Value_str(args.val[3]))),
                     App_set_config(c, args.val[2], args.val[3]))

\* App::config
App_config(m, c, argv) ==
    LET args == ConfigArgs_from_args(argv)
    IN  IF ~args.ok THEN Handled(args, m, c)
        ELSE IF args.val[1] = "Get"
        THEN LET k == args.val[2]
                 config_value == VString(BTreeMap_get(c, k))
             IN  Handled(Ok(VArray(Some(<<VString(Some(k)), config_value>>))), m, c)
        ELSE Handled(Ok(Value_str(S_OK)), m,
                     App_set_config(c, args.val[2], args.val[3]))

\* the match on the verb as it was sent, not lower-cased
Handle_CaseSensitive(command, args, m, c, t) ==
    CASE command = S_ping -> App_ping(m, c)
      [] command = S_echo -> App_echo(m, c, args)
      [] command = S_set -> App_set(m, c, args, t)
      [] command = S_get -> App_get(m, c, args, t)
      [] command = S_config -> App_config(m, c, args)
      [] OTHER -> Handled(Err(UnknownCommand(command)), m, c)

\* the match of App::dispatch_inner on the lower-cased verb
Handle(command, args, m, c, t) ==
    LET verb == to_lowercase(command)
    IN  CASE verb = S_ping -> App_ping(m, c)
          [] verb = S_echo -> App_echo(m, c, args)
          [] verb = S_set -> App_set(m, c, args, t)
          [] verb = S_get -> App_get(m, c, args, t)
          [] verb = S_config -> App_config(m, c, args)
          [] OTHER -> Handled(Err(UnknownCommand(command)), m, c)

\* App::dispatch_inner up to the handler's result
dispatch_handler(arg, m, c, t) ==
    IF ~(arg.tag = "Array" /\ arg.arr # None)
    THEN Handled(Err(InvalidReq("command must be an array")), m, c)
    ELSE LET argv == arg.arr[1]
         IN  IF argv = <<>>
             THEN Handled(Err(InvalidReq("argv must not be empty")), m, c)
             ELSE IF ~(argv[1].tag = "String" /\ argv[1].str # None)
             THEN Handled(Err(TypeError("command must be a string")), m, c)
             ELSE Handle(argv[1].str[1], Tail(argv), m, c, t)

\* ToBytes::to_bytes of the handler's result followed by
\* App::dispatch_command: the response frame, the error line, or no response
\* at all when the encoder panics
Frame(b) == [kind |-> "frame", bytes |-> b]
ErrorLine(e) == [kind |-> "error", bytes |-> Error_to_string(e) \o CRLF]
Panicked == [kind |-> "panic", bytes |-> <<>>]

\* a response that treats a command error as it treats a failed encoder
dispatch_response_FatalErrors(r) ==
    IF ~r.ok THEN Panicked
    ELSE LET b == to_bytes(r.val)
         IN  IF b.st = "panic" THEN Panicked ELSE Frame(b.out)

dispatch_response(r) ==
    IF ~r.ok THEN ErrorLine(r.err)
    ELSE LET b == to_bytes(r.val)
         IN  IF b.st = "panic" THEN Panicked ELSE Frame(b.out)

---------------------------------------------------------------------------
(* deserializer.rs.  The cursor is the buffer and the count of bytes       *)
(* consumed so far, which is Deserializer::position.                       *)

UnexpectedEof == [e |-> "UnexpectedEof"]
Syntax(at) == [e |-> "Syntax", at |-> at]
NegativeLength(at) == [e |-> "NegativeLength", at |-> at]
ParseIntError(at) == [e |-> "ParseIntError", at |-> at]
TrailingCharacters(at) == [e |-> "TrailingCharacters", at |-> at]
Custom(m) == [e |-> "Custom", msg |-> m]
ExpectedArray(at) == [e |-> "ExpectedArray", at |-> at]
MissingValue(at) == [e |-> "MissingValue", at |-> at]

DeOk(v, pos) == [st |-> "ok", val |-> v, pos |-> pos]
DeErr(e) == [st |-> "err", err |-> e]
\* a todo!() was reached: the call panics
DePanic == [st |-> "panic"]

\* the index of the first "\r\n" at or after pos, as windows(2) finds it
CrlfAt(buf, pos) ==
    {i \in pos..(Len(buf) - 2) : buf[i + 1] = CR /\ buf[i + 2] = LF}

Min(S) == CHOOSE x \in S : \A y \in S : x <= y

\* Deserializer::until_crlf: the bytes before the next "\r\n", which is consumed
until_crlf(buf, pos) ==
    IF CrlfAt(buf, pos) = {} THEN DeErr(UnexpectedEof)
    ELSE LET idx == Min(CrlfAt(buf, pos))
         IN  DeOk(SubSeq(buf, pos + 1, idx), idx + 2)

\* the count of leading digits of s
RECURSIVE LeadingDigits(_)
LeadingDigits(s) ==
    IF s = <<>> \/ ~IsDigit(Head(s)) THEN 0 ELSE 1 + LeadingDigits(Tail(s))

\* an atoi that reads digits only, and no sign
atoi_Unsigned(s) ==
    IF LeadingDigits(s) = 0 THEN None
    ELSE Some(DigitsToNat(SubSeq(s, 1, LeadingDigits(s))))

\* atoi::atoi::<i64>: an optional sign, then the longest run of digits; bytes
\* after the digits are ignored, and nothing consumed at all is None
atoi(s) ==
    LET signed == s # <<>> /\ s[1] \in {"+", "-"}
        ds == IF signed THEN Tail(s) ELSE s
        n == LeadingDigits(ds)
        used == n + (IF signed THEN 1 ELSE 0)
        magnitude == DigitsToNat(SubSeq(ds, 1, n))
    IN  IF used = 0 THEN None
        ELSE IF signed /\ s[1] = "-" THEN Some(-magnitude)
        ELSE Some(magnitude)

\* Deserializer::parse_int
parse_int(s, position) ==
    IF atoi(s) = None THEN DeErr(ParseIntError(position))
    ELSE DeOk(atoi(s)[1], position)

\* Deserializer::take then the mandatory tag(b"\r\n") of the '$' branch
take_bulk(buf, pos, n) ==
    IF Len(buf) - pos < n THEN DeErr(UnexpectedEof)
    ELSE IF pos + n + 2 <= Len(buf) /\ buf[pos + n + 1] = CR /\ buf[pos + n + 2] = LF
    THEN DeOk(SubSeq(buf, pos + 1, pos + n), pos + n + 2)
    ELSE DeErr(Syntax(pos + n))

\* what the visitor is handed: serde's Content of the untagged enum
CBytes(b) == [c |-> "Bytes", bytes |-> b]
CI64(i) == [c |-> "I64", i64 |-> i]
CBool(b) == [c |-> "Bool", bool |-> b]

\* deserialize_any: one value at the cursor, by its sigil
deserialize_any(buf, pos) ==
    IF pos >= Len(buf) THEN DeErr(UnexpectedEof)
    ELSE LET sigil == buf[pos + 1]
             p == pos + 1
             line == until_crlf(buf, p)
         IN  CASE sigil = "+" ->
                    IF line.st = "err" THEN line
                    ELSE DeOk(CBytes(line.val), line.pos)
               [] sigil = "$" ->
                    IF line.st = "err" THEN line
                    ELSE LET len == parse_int(line.val, p)
                         IN  IF len.st = "err" THEN len
                             ELSE IF len.val < 0 THEN DeErr(NegativeLength(p))
                             ELSE LET b == take_bulk(buf, line.pos, len.val)
                                  IN  IF b.st = "err" THEN b
                                      ELSE DeOk(CBytes(b.val), b.pos)
               [] sigil = ":" ->
                    IF line.st = "err" THEN line
                    ELSE LET int == parse_int(line.val, p)
                         IN  IF int.st = "err" THEN int
                             ELSE DeOk(CI64(int.val), line.pos)
               [] sigil = "#" ->
                    IF line.st = "err" THEN line
                    ELSE IF line.val = <<"t">> THEN DeOk(CBool(TRUE), line.pos)
                    ELSE IF line.val = <<"f">> THEN DeOk(CBool(FALSE), line.pos)
                    ELSE DeErr(Syntax(p))
               [] OTHER -> DeErr(Syntax(p))

\* the derived, untagged Deserialize of Value: the input is buffered through
\* deserialize_any, then the variants are tried in order on what it gave
Value_deserialize(buf, pos) ==
    LET content == deserialize_any(buf, pos)
    IN  IF content.st = "err" THEN content
        ELSE CASE content.val.c = "I64" -> DeOk(VInt(content.val.i64), content.pos)
               [] content.val.c = "Bool" -> DeOk(VBool(content.val.bool), content.pos)
               [] content.val.c = "Bytes" ->
                    DeOk(VString(Some(content.val.bytes)), content.pos)

\* deserializer::from_bytes::<Value>
from_bytes(buf) ==
    LET t == Value_deserialize(buf, 0)
    IN  IF t.st = "err" THEN t
        ELSE IF t.pos = Len(buf) THEN t
        ELSE DeErr(TrailingCharacters(t.pos))

---------------------------------------------------------------------------
(* deserializer.rs: from_bytes::<T> for the types T that serde gives a     *)
(* Deserialize: integers, bool, String, Vec<E>, BTreeMap<K, V>, Option<E>, *)
(* and the untagged Value.  An integer decodes to the integer, a String to *)
(* its bytes, a Vec to the sequence and a BTreeMap to the set of its pairs.*)

TInt == [ty |-> "Int"]
TBool == [ty |-> "Bool"]
TString == [ty |-> "String"]
TVec(E) == [ty |-> "Vec", of |-> E]
TMap(K, V) == [ty |-> "Map", k |-> K, v |-> V]
TOption(E) == [ty |-> "Option", of |-> E]
TValue == [ty |-> "Value"]

\* the visitor of a primitive type on what deserialize_any hands it:
\* visit_i64, visit_bool and visit_borrowed_bytes, any other is serde's
\* invalid_type, made an Error by de::Error::custom
visit(T, content) ==
    IF \/ T.ty = "Int" /\ content.val.c = "I64"
       \/ T.ty = "Bool" /\ content.val.c = "Bool"
       \/ T.ty = "String" /\ content.val.c = "Bytes"
    THEN DeOk(CASE T.ty = "Int" -> content.val.i64
                [] T.ty = "Bool" -> content.val.bool
                [] T.ty = "String" -> content.val.bytes,
              content.pos)
    ELSE DeErr(Custom("invalid type"))

\* the header of a '*' or '%' frame: the count declared after the sigil
count_header(buf, p) ==
    LET line == until_crlf(buf, p)
    IN  IF line.st = "err" THEN line
        ELSE LET len == parse_int(line.val, p)
             IN  IF len.st = "err" THEN len
                 ELSE IF len.val < 0 THEN DeErr(NegativeLength(p))
                 ELSE DeOk(len.val, line.pos)

RECURSIVE deserialize(_, _, _), deserialize_seq(_, _, _), deserialize_map(_, _, _, _),
          next_elements(_, _, _, _, _), next_entries(_, _, _, _, _, _)

\* T::deserialize(&mut deserializer) with the cursor at pos
deserialize(T, buf, pos) ==
    CASE T.ty \in {"Int", "Bool", "String"} ->
            LET content == deserialize_any(buf, pos)
            IN  IF content.st = "err" THEN content ELSE visit(T, content)
      [] T.ty = "Value" -> Value_deserialize(buf, pos)
      [] T.ty = "Option" -> DePanic
      [] T.ty = "Vec" -> deserialize_seq(T.of, buf, pos)
      [] T.ty = "Map" -> deserialize_map(T.k, T.v, buf, pos)

\* deserialize_seq with the visitor of Vec<E>
deserialize_seq(E, buf, pos) ==
    IF pos >= Len(buf) THEN DeErr(UnexpectedEof)
    ELSE IF buf[pos + 1] # "*" THEN DeErr(ExpectedArray(pos + 1))
    ELSE LET len == count_header(buf, pos + 1)
         IN  IF len.st = "err" THEN len
             ELSE next_elements(E, buf, len.pos, len.val, <<>>)

\* SeqAccess::next_element_seed until it gives None; len is Array.len
next_elements(E, buf, pos, len, acc) ==
    IF len = 0 THEN DeOk(acc, pos)
    ELSE LET x == deserialize(E, buf, pos)
         IN  IF x.st # "ok" THEN x
             ELSE next_elements(E, buf, x.pos, len - 1, Append(acc, x.val))

\* deserialize_map with the visitor of BTreeMap<K, V>
deserialize_map(K, V, buf, pos) ==
    IF pos >= Len(buf) THEN DeErr(UnexpectedEof)
    ELSE IF buf[pos + 1] # "%" THEN DeErr(ExpectedArray(pos + 1))
    ELSE LET len == count_header(buf, pos + 1)
         IN  IF len.st = "err" THEN len
             ELSE next_entries(K, V, buf, len.pos, len.val, {})

\* MapAccess::next_key_seed, then next_value_seed, until the key is None.
\* next_key_seed leaves len as it is; next_value_seed gives MissingValue
\* when len is 0 and takes one off it otherwise.
next_entries(K, V, buf, pos, len, acc) ==
    IF len = 0 THEN DeOk(acc, pos)
    ELSE LET key == deserialize(K, buf, pos)
         IN  IF key.st # "ok" THEN key
             ELSE IF len = 0 THEN DeErr(MissingValue(key.pos))
             ELSE LET value == deserialize(V, buf, key.pos)
                  IN  IF value.st # "ok" THEN value
                      ELSE next_entries(K, V, buf, value.pos, len - 1,
                                        BTreeMap_insert(acc, key.val, value.val))

\* from_bytes that returns the value whatever is left of the buffer
from_bytes_as_IgnoresRest(T, buf) == deserialize(T, buf, 0)

\* deserializer::from_bytes::<T>
from_bytes_as(T, buf) ==
    LET t == deserialize(T, buf, 0)
    IN  IF t.st # "ok" THEN t
        ELSE IF t.pos = Len(buf) THEN t
        ELSE DeErr(TrailingCharacters(t.pos))

---------------------------------------------------------------------------
(* The buffers the decoder is run on: frames of the wire grammar, broken   *)
(* frames and cut frames.                                                  *)

\* the frame of an integer, of a simple text and of a sequence of frames
IntFrame(i) == <<":">> \o IntToChars(i) \o CRLF
TextFrame(s) == <<"+">> \o s \o CRLF
BulkFrame(s) == <<"$">> \o IntToChars(Len(s)) \o CRLF \o s \o CRLF

RECURSIVE Concat(_)
Concat(fs) == IF fs = <<>> THEN <<>> ELSE Head(fs) \o Concat(Tail(fs))

SeqFrame(fs) == <<"*">> \o IntToChars(Len(fs)) \o CRLF \o Concat(fs)
MapFrame(fs) == <<"%">> \o IntToChars(Len(fs) \div 2) \o CRLF \o Concat(fs)

\* the frame of an absent text or sequence
AbsentFrame == <<"$", "-", "1">> \o CRLF

\* sequences of integers, as in tests::untagged_array, and their frames
IntSeqs == {<<>>, <<1>>, <<1, 2>>, <<1, 2, 3>>, <<-1, 0>>}
IntSeqFrame(xs) == SeqFrame([i \in DOMAIN xs |-> IntFrame(xs[i])])
IntSeqValue(xs) == VArray(Some([i \in DOMAIN xs |-> VInt(xs[i])]))

\* request frames: a sequence whose first element names the verb
RequestFrames ==
    { SeqFrame(<<TextFrame(S_ping)>>),
      SeqFrame(<<BulkFrame(S_ping)>>),
      SeqFrame(<<TextFrame(S_get), TextFrame(<<"k">>)>>),
      SeqFrame(<<TextFrame(S_set), TextFrame(<<"k">>), TextFrame(<<"v">>)>>),
      SeqFrame(<<BulkFrame(S_echo), BulkFrame(<<"h", "i">>)>>) }

ScalarFrames ==
    {IntFrame(i) : i \in {-12, -1, 0, 1, 7, 12}}
        \cup {TextFrame(s) : s \in {<<>>, <<"a">>, S_OK, S_ping, <<"a", CR, "b">>}}
        \cup {BulkFrame(s) : s \in {<<>>, <<"a">>, S_ping, <<"a", CR, LF, "b">>}}
        \cup {<<"#", "t">> \o CRLF, <<"#", "f">> \o CRLF, <<"$", "-", "1">> \o CRLF}

NestedFrames ==
    { SeqFrame(<<SeqFrame(<<>>), IntFrame(1)>>),
      MapFrame(<<>>),
      MapFrame(<<TextFrame(<<"a">>), IntFrame(1)>>),
      <<"*", "-", "1">> \o CRLF }

BrokenFrames ==
    { <<>>, <<"#", "x">> \o CRLF, <<":">> \o CRLF, <<":", "x">> \o CRLF,
      <<":", "-">> \o CRLF, <<":", "1", "x">> \o CRLF,
      <<"$", "2">> \o CRLF \o <<"a", "b", "c">> \o CRLF,
      <<"$", "-", "2">> \o CRLF, <<"_">> \o CRLF, <<",", "1">> \o CRLF,
      IntFrame(1) \o <<"X">>, IntFrame(1) \o IntFrame(2),
      TextFrame(<<"a">>) \o CRLF }

Prefixes(f) == {SubSeq(f, 1, n) : n \in 0..(Len(f) - 1)}

CutFrames ==
    Prefixes(IntFrame(12)) \cup Prefixes(BulkFrame(<<"h", "i">>))
        \cup Prefixes(TextFrame(<<"a">>)) \cup Prefixes(<<"#", "t">> \o CRLF)

Buffers ==
    {IntSeqFrame(xs) : xs \in IntSeqs} \cup RequestFrames \cup ScalarFrames
        \cup NestedFrames \cup BrokenFrames \cup CutFrames

---------------------------------------------------------------------------
(* The requests and arguments the model draws from. *)

Text(c) == Value_str(<<c>>)

K1 == Text("k")
K2 == VInt(1)
Keys == {K1, K2}
Vals == {Text("v"), Text("w")}

T_px == Value_str(S_px)
T_PX == Value_str(<<"P", "X">>)
T_0 == Text("0")
T_1 == Text("1")
T_neg1 == Value_str(<<"-", "1">>)

Request(verb, args) == VArray(Some(<<Value_str(verb)>> \o args))

\* what may follow key and value in a set request on the first key
SetTails ==
    { <<>>, <<T_px, T_0>>, <<T_PX, T_1>>, <<T_px, T_neg1>>,
      <<T_px>>, <<T_px, Text("x")>>, <<T_px, VInt(1)>> }

SetRequests ==
    {Request(S_set, <<K1, v>> \o tail) : v \in Vals, tail \in SetTails}
        \cup {Request(S_set, <<K2, Text("v")>>), Request(S_set, <<K2, VNull>>),
              Request(<<"S", "E", "T">>, <<K2, Text("v"), T_px, T_0>>)}

GetRequests ==
    {Request(S_get, <<k>>) : k \in Keys} \cup {Request(S_get, <<>>)}

OtherRequests ==
    { Request(S_config, <<Value_str(S_set), Text("d"), Text("a")>>),
      Request(S_config, <<Value_str(S_get), Text("d")>>),
      Request(S_echo, <<VNull>>),
      Request(S_ping, <<>>) }

Requests == SetRequests \cup GetRequests \cup OtherRequests

NoRequest == VNull
NoRet == Err(GenericStatic(""))
NoResp == [kind |-> "none", bytes |-> <<>>]
NotDecoded == [st |-> "none"]
NoValue == [tag |-> "none"]
NoOutcome == [st |-> "none"]

---------------------------------------------------------------------------
(* The state machine of the command engine. *)

\* the request is a set, whatever the letter case of the verb, and on key k
IsVerb(r, verb) ==
    /\ r.tag = "Array" /\ r.arr # None /\ r.arr[1] # <<>>
    /\ r.arr[1][1].tag = "String" /\ r.arr[1][1].str # None
    /\ to_lowercase(r.arr[1][1].str[1]) = verb

Argv(r) == Tail(r.arr[1])

\* history of the sets that returned OK: key |-> the arguments of the last one
Record(w, r, h) ==
    IF IsVerb(r, S_set) /\ h.ret.ok
    THEN [w EXCEPT ![Argv(r)[1]] = Some(Argv(r))]
    ELSE w

\* history: the value of the entry a set that returned OK replaced, and whether
\* that entry had an expiry
Replaced(m, r, h) ==
    IF IsVerb(r, S_set) /\ h.ret.ok /\ \E p \in m : p.k = Argv(r)[1]
    THEN LET old == CHOOSE p \in m : p.k = Argv(r)[1]
         IN  Some([value |-> old.e.value, expiring |-> old.e.expiry # <<>>])
    ELSE <<>>

\* the names of settings the requests use; "f" is never set
Names == {<<"d">>, <<"e">>, <<"f">>}

\* history of the config sets that returned OK: name |-> the last value set
Configured(c, r, h) ==
    IF /\ IsVerb(r, S_config) /\ h.ret.ok
       /\ to_lowercase(Argv(r)[1].str[1]) = S_set
    THEN [c EXCEPT ![Argv(r)[2].str[1]] = Some(Argv(r)[3].str[1])]
    ELSE c

\* the concurrent callers, and a caller that is not in a call
Tasks == {"t1", "t2"}
Idle == [pc |-> "idle"]

\* the clients that connect to the listener; a connection no client has opened
Conns == {"c1", "c2"}
NotConnected == [st |-> "none", unread |-> None, closed |-> FALSE, answered |-> FALSE]

\* App::new
Init ==
    /\ store = {}
    /\ config = {}
    /\ now = 0
    /\ alive = TRUE
    /\ op = "init"
    /\ req = NoRequest
    /\ ret = NoRet
    /\ resp = NoResp
    /\ written = [k \in Keys |-> None]
    /\ replaced = None
    /\ input = <<>>
    /\ decoded = NotDecoded
    /\ target = TValue
    /\ prev = "none"
    /\ configured = [n \in Names |-> None]
    /\ lock = None
    /\ tasks = [t \in Tasks |-> Idle]
    /\ built = {}
    /\ given = NoValue
    /\ outcome = NoOutcome
    /\ config_lock = None
    /\ conns = [c \in Conns |-> NotConnected]
    /\ serving = None

\* one call of App::dispatch_command(arg), as handle_connection makes it.  A
\* panic of the encoder unwinds handle_connection and main: the process ends.
dispatch_command(arg) ==
    /\ alive
    /\ \E h \in {dispatch_handler(arg, store, config, now)} :
         \E r \in {dispatch_response(h.ret)} :
            /\ store' = h.store
            /\ config' = h.config
            /\ ret' = h.ret
            /\ resp' = r
            /\ alive' = (r.kind # "panic")
            /\ written' = Record(written, arg, h)
            /\ replaced' = Replaced(store, arg, h)
            /\ configured' = Configured(configured, arg, h)
    /\ req' = arg
    /\ op' = "dispatch"
    /\ UNCHANGED <<now, codecVars, taskVars, serverVars>>

\* a call of dispatch_command that is not looked at as part of a connection
Dispatch(arg) == dispatch_command(arg) /\ UNCHANGED prev

\* one call of App::prune_expired.  The clock may move during the sweep: each
\* entry is examined at some reading between the start and the end of it.
PruneExpired ==
    /\ alive
    /\ \E end \in now..MaxTime :
         \E reading \in [store -> now..end] :
            /\ store' = prune_expired(store, reading)
            /\ now' = end
    /\ op' = "prune"
    /\ UNCHANGED <<config, alive, req, ret, resp, written, replaced, prev,
                   configured, codecVars, taskVars, serverVars>>

\* the wall clock moves forward
Tick ==
    /\ alive
    /\ now < MaxTime
    /\ now' = now + 1
    /\ op' = "tick"
    /\ UNCHANGED <<store, config, alive, req, ret, resp, written, replaced, prev,
                   configured, codecVars, taskVars, serverVars>>

Next ==
    \/ \E arg \in Requests : Dispatch(arg)
    \/ PruneExpired
    \/ Tick

Spec == Init /\ [][Next]_vars

---------------------------------------------------------------------------
(* The server loop on one buffer: handle_connection reads it, decodes it   *)
(* as a Value and hands the Value to dispatch_command; a decode error ends *)
(* the connection without a dispatch.                                      *)

InitDecode ==
    /\ store = {}
    /\ config = {}
    /\ now = 0
    /\ alive = TRUE
    /\ op = "init"
    /\ req = NoRequest
    /\ ret = NoRet
    /\ resp = NoResp
    /\ written = [k \in Keys |-> None]
    /\ replaced = None
    /\ input \in Buffers
    /\ decoded = NotDecoded
    /\ target = TValue
    /\ prev = "none"
    /\ configured = [n \in Names |-> None]
    /\ lock = None
    /\ tasks = [t \in Tasks |-> Idle]
    /\ built = {}
    /\ given = NoValue
    /\ outcome = NoOutcome
    /\ config_lock = None
    /\ conns = [c \in Conns |-> NotConnected]
    /\ serving = None

\* from_bytes(&buf[..n]) in handle_connection
Decode ==
    /\ op = "init"
    /\ decoded' = from_bytes(input)
    /\ op' = "decode"
    /\ UNCHANGED <<store, config, now, alive, req, ret, resp, written, replaced,
                   input, target, prev, configured, taskVars, given, outcome,
                   serverVars>>

\* app.dispatch_command(v) on the decoded Value
Serve ==
    /\ op = "decode"
    /\ decoded.st = "ok"
    /\ Dispatch(decoded.val)

NextDecode == Decode \/ Serve

SpecDecode == InitDecode /\ [][NextDecode]_vars


---------------------------------------------------------------------------
(* One connection: handle_connection hands one request after the other to  *)
(* dispatch_command and writes each response before it reads the next.     *)
(* The requests are of every verb in several letter cases, with too few,   *)
(* the right number of and too many arguments, and of no known verb.       *)

T_d == Text("d")
T_e == Text("e")
T_f == Text("f")
T_a == Text("a")
T_b == Text("b")
T_get == Value_str(S_get)
T_set == Value_str(S_set)

\* requests with the number of arguments their verb takes
ValidRequests ==
    { Request(S_ping, <<>>), Request(S_echo, <<T_a>>),
      Request(S_set, <<K1, Text("v")>>), Request(S_set, <<K1, Text("w")>>),
      Request(S_get, <<K1>>),
      Request(S_config, <<T_set, T_d, T_a>>), Request(S_config, <<T_set, T_d, T_b>>),
      Request(S_config, <<T_set, T_e, T_a>>),
      Request(S_config, <<T_get, T_d>>), Request(S_config, <<T_get, T_e>>),
      Request(S_config, <<T_get, T_f>>) }

\* the same verbs in other letter cases
CasedRequests ==
    { Request(<<"P", "I", "N", "G">>, <<>>), Request(<<"p", "I", "n", "G">>, <<>>),
      Request(<<"E", "c", "h", "o">>, <<T_b>>),
      Request(<<"S", "E", "T">>, <<K1, Text("w")>>),
      Request(<<"s", "e", "T">>, <<K1, Text("v"), T_PX, T_1>>),
      Request(<<"G", "E", "T">>, <<K1>>), Request(<<"G", "e", "t">>, <<K1>>),
      Request(<<"C", "O", "N", "F", "I", "G">>, <<T_get, T_d>>),
      Request(<<"C", "o", "n", "f", "i", "g">>,
              <<Value_str(<<"S", "E", "T">>), T_d, T_b>>),
      Request(S_config, <<Value_str(<<"G", "e", "T">>), T_d>>) }

\* too few or too many arguments, or no known sub-verb
ArityRequests ==
    { Request(S_set, <<>>), Request(S_set, <<K1>>),
      Request(S_get, <<>>), Request(S_get, <<K1, K1>>),
      Request(S_echo, <<>>), Request(S_echo, <<T_a, T_b>>),
      Request(S_config, <<>>), Request(S_config, <<Text("x")>>),
      Request(S_config, <<T_get>>), Request(S_config, <<T_get, T_d, T_e>>),
      Request(S_config, <<T_set>>), Request(S_config, <<T_set, T_d>>),
      Request(S_config, <<T_set, T_d, T_a, T_b>>) }

\* the verbs no handler answers to
UnknownVerbs ==
    { <<"F", "O", "O">>, <<"f", "o", "o">>, <<"P", "o", "n", "g">>, <<>>,
      <<"s", "e", "t", "x">>, <<"g", "e">> }

UnknownRequests ==
    {Request(verb, <<>>) : verb \in UnknownVerbs}
        \cup {Request(<<"F", "O", "O">>, <<K1, Text("v")>>)}

\* arguments of the wrong type: no array, no verb, a verb or a sub-verb or a
\* name that is no text, an expiry that is no integer
TypeRequests ==
    { VInt(1), Text("a"), VArray(None), VArray(Some(<<>>)),
      VArray(Some(<<VInt(1)>>)), VArray(Some(<<VString(None), K1>>)),
      Request(S_config, <<VInt(1)>>), Request(S_config, <<T_get, VInt(1)>>),
      Request(S_config, <<T_set, VInt(1), T_a>>),
      Request(S_config, <<T_set, T_d, VInt(1)>>),
      Request(S_set, <<K1, Text("v"), T_px, Text("x")>>),
      Request(S_set, <<K1, Text("v"), T_px>>) }

ConnRequests ==
    ValidRequests \cup CasedRequests \cup ArityRequests \cup UnknownRequests
        \cup TypeRequests

\* the body of the loop of handle_connection for a request that was read as
\* arg: the response of the call before this one has been written
ServeRequest(arg) == dispatch_command(arg) /\ prev' = resp.kind

NextConn == \E arg \in ConnRequests : ServeRequest(arg)

SpecConn == Init /\ [][NextConn]_vars

---------------------------------------------------------------------------
(* from_bytes::<T> on one buffer, for several T: frames that are well      *)
(* formed for T, the same followed by more bytes, cut short, with a        *)
(* negative count declared, and of another type than T.  A case is the     *)
(* pair <<T, buffer>>.                                                     *)

BoolFrame(b) == <<"#", IF b THEN "t" ELSE "f">> \o CRLF

\* the header of a frame that declares the count n
Header(sigil, n) == <<sigil>> \o IntToChars(n) \o CRLF

TMapStringInt == TMap(TString, TInt)

WellFormed ==
    {<<TInt, IntFrame(i)>> : i \in {-12, 0, 1, 7}}
        \cup {<<TBool, BoolFrame(b)>> : b \in BOOLEAN}
        \cup {<<TString, f>> :
                f \in { TextFrame(<<"a">>), TextFrame(<<>>), BulkFrame(<<>>),
                        BulkFrame(<<"h", "i">>), BulkFrame(<<"a", CR, LF, "b">>) }}
        \cup {<<TValue, f>> :
                f \in { IntFrame(1), TextFrame(<<"a">>), BulkFrame(<<"h", "i">>),
                        BoolFrame(TRUE) }}
        \cup {<<TVec(TInt), IntSeqFrame(xs)>> : xs \in IntSeqs}
        \cup { <<TVec(TString), SeqFrame(<<TextFrame(<<"a">>), BulkFrame(<<"h", "i">>)>>)>>,
               <<TVec(TVec(TInt)), SeqFrame(<<SeqFrame(<<>>), IntSeqFrame(<<1>>)>>)>>,
               <<TMapStringInt, MapFrame(<<>>)>>,
               <<TMapStringInt, MapFrame(<<TextFrame(<<"a">>), IntFrame(1)>>)>>,
               <<TMapStringInt,
                 MapFrame(<<TextFrame(<<"a">>), IntFrame(1),
                            BulkFrame(<<"b">>), IntFrame(2)>>)>>,
               <<TMap(TInt, TVec(TInt)), MapFrame(<<IntFrame(1), IntSeqFrame(<<2>>)>>)>> }

\* bytes that are left after one value
Rests == {<<"X">>, CRLF, IntFrame(2)}

Followed == {<<c[1], c[2] \o r>> : c \in WellFormed, r \in Rests}

Cut == UNION {{<<c[1], p>> : p \in Prefixes(c[2])} : c \in WellFormed}

\* a map frame that ends after a key: the value of the last pair is not there
KeyWithoutValue ==
    { <<TMapStringInt, Header("%", 1) \o TextFrame(<<"a">>)>>,
      <<TMapStringInt,
        Header("%", 2) \o TextFrame(<<"a">>) \o IntFrame(1) \o BulkFrame(<<"b">>)>>,
      <<TMap(TInt, TVec(TInt)), Header("%", 1) \o IntFrame(1)>> }

\* a negative count declared after the sigil, at top level or after the bytes
\* head of the frames around it, for a T that takes no absent value there
NegativeCounts ==
    LET at(T, head, sigil, rest) ==
            {[ty |-> T, head |-> head, sigil |-> sigil, n |-> n, rest |-> rest] :
                n \in {-1, -2, -12}}
    IN  at(TString, <<>>, "$", <<>>)
            \cup at(TString, <<>>, "$", <<"a", "b">> \o CRLF)
            \cup at(TVec(TInt), <<>>, "*", <<>>)
            \cup at(TVec(TInt), <<>>, "*", IntFrame(1))
            \cup at(TMapStringInt, <<>>, "%", <<>>)
            \cup at(TVec(TString), Header("*", 1), "$", <<>>)
            \cup at(TVec(TString), Header("*", 2) \o TextFrame(<<"a">>), "$", <<>>)
            \cup at(TVec(TVec(TInt)), Header("*", 2) \o Header("*", 0), "*", <<>>)
            \cup at(TMap(TInt, TVec(TInt)), Header("%", 1) \o IntFrame(1), "*", <<>>)
            \cup at(TMapStringInt, Header("%", 1), "$", IntFrame(1))
            \cup at(TVec(TMapStringInt), Header("*", 1), "%", <<>>)

NegativeBuffer(c) == c.head \o Header(c.sigil, c.n) \o c.rest

Negative == {<<c.ty, NegativeBuffer(c)>> : c \in NegativeCounts}

\* the absent values of the tests option_null_string, option_int and
\* option_null_array, a present value decoded as an Option, and the absent
\* text decoded as a Value
Optional ==
    { <<TOption(TString), AbsentFrame>>, <<TOption(TInt), <<"_">> \o CRLF>>,
      <<TOption(TVec(TInt)), Header("*", -1)>>,
      <<TOption(TString), TextFrame(<<"a">>)>>, <<TValue, AbsentFrame>> }

\* a frame of another type than T
Mistyped ==
    { <<TInt, TextFrame(<<"a">>)>>, <<TBool, IntFrame(1)>>, <<TString, IntFrame(1)>>,
      <<TVec(TInt), IntFrame(1)>>, <<TMapStringInt, IntSeqFrame(<<>>)>>,
      <<TVec(TInt), SeqFrame(<<TextFrame(<<"a">>)>>)>>,
      <<TValue, IntSeqFrame(<<1>>)>> }

TypedCases ==
    WellFormed \cup Followed \cup Cut \cup KeyWithoutValue \cup Negative
        \cup Optional \cup Mistyped

InitTyped ==
    /\ store = {}
    /\ config = {}
    /\ now = 0
    /\ alive = TRUE
    /\ op = "init"
    /\ req = NoRequest
    /\ ret = NoRet
    /\ resp = NoResp
    /\ written = [k \in Keys |-> None]
    /\ replaced = None
    /\ \E c \in TypedCases : target = c[1] /\ input = c[2]
    /\ decoded = NotDecoded
    /\ prev = "none"
    /\ configured = [n \in Names |-> None]
    /\ lock = None
    /\ tasks = [t \in Tasks |-> Idle]
    /\ built = {}
    /\ given = NoValue
    /\ outcome = NoOutcome
    /\ config_lock = None
    /\ conns = [c \in Conns |-> NotConnected]
    /\ serving = None

\* from_bytes::<T>(input)
DecodeAs ==
    /\ op = "init"
    /\ decoded' = from_bytes_as(target, input)
    /\ op' = "decode"
    /\ UNCHANGED <<store, config, now, alive, req, ret, resp, written, replaced,
                   input, target, prev, configured, taskVars, given, outcome,
                   serverVars>>

NextTyped == DecodeAs

SpecTyped == InitTyped /\ [][NextTyped]_vars

---------------------------------------------------------------------------
(* The codec in both directions.  One behaviour takes a value, encodes it  *)
(* with to_bytes and decodes the bytes with from_bytes::<Value>; another   *)
(* takes a frame of the wire grammar, decodes it and encodes the decoded   *)
(* Value.  The values are those of the data model, and beside them a u64   *)
(* and a sequence and a map serialized from an iterator.                   *)

U64(ds) == [tag |-> "U64", digits |-> ds]
IterSeq(xs) == [tag |-> "IterSeq", items |-> xs]
IterMap(xs) == [tag |-> "IterMap", items |-> xs]

Texts == {<<>>, <<"a">>, S_OK, <<"a", CR, "b">>, <<"a", CR, LF, "b">>, CRLF}

Scalars ==
    {VInt(i) : i \in {-12, -1, 0, 1, 7}} \cup {VBool(TRUE), VBool(FALSE)}
        \cup {Value_str(s) : s \in Texts}

RoundValues ==
    Scalars
        \cup {VString(None), VArray(None), VNull}
        \cup {VArray(Some(<<>>)), VArray(Some(<<VInt(1), Text("a")>>)),
              VArray(Some(<<VArray(Some(<<VInt(1)>>)), VBool(TRUE)>>)),
              VArray(Some(<<VNull>>)), VArray(Some(<<VString(None)>>))}
        \cup {VMap(<<>>), VMap(<<<<Text("a"), VInt(1)>>>>),
              VMap(<<<<VInt(1), VArray(Some(<<>>))>>, <<Text("a"), VNull>>>>)}

U64s ==
    {U64(<<"0">>), U64(<<"7">>), U64(I64_MAX),
     U64(SubSeq(I64_MAX, 1, 18) \o <<"8">>),
     U64(<<"1", "8", "4", "4", "6", "7", "4", "4", "0", "7", "3", "7", "0", "9",
           "5", "5", "1", "6", "1", "5">>)}

Iterated ==
    {IterSeq(<<>>), IterSeq(<<VInt(1)>>), IterMap(<<>>),
     IterMap(<<Text("a"), VInt(1)>>)}

Encodables == RoundValues \cup U64s \cup Iterated

RoundFrames ==
    {IntFrame(i) : i \in {-12, -1, 0, 1, 7}}
        \cup {TextFrame(s) : s \in {<<>>, <<"a">>, S_OK, <<"a", CR, "b">>}}
        \cup {BulkFrame(s) : s \in {<<>>, <<"a">>, S_OK, <<"a", CR, LF, "b">>, CRLF}}
        \cup {BoolFrame(TRUE), BoolFrame(FALSE)}
        \cup {SeqFrame(<<>>), SeqFrame(<<IntFrame(1), TextFrame(<<"a">>)>>),
              SeqFrame(<<SeqFrame(<<IntFrame(1)>>), BoolFrame(TRUE)>>)}
        \cup {MapFrame(<<>>), MapFrame(<<TextFrame(<<"a">>), IntFrame(1)>>)}

InitRound ==
    /\ store = {}
    /\ config = {}
    /\ now = 0
    /\ alive = TRUE
    /\ op = "init"
    /\ req = NoRequest
    /\ ret = NoRet
    /\ resp = NoResp
    /\ written = [k \in Keys |-> None]
    /\ replaced = None
    /\ \/ given \in Encodables /\ input = <<>>
       \/ given = NoValue /\ input \in RoundFrames
    /\ decoded = NotDecoded
    /\ target = TValue
    /\ prev = "none"
    /\ configured = [n \in Names |-> None]
    /\ lock = None
    /\ tasks = [t \in Tasks |-> Idle]
    /\ built = {}
    /\ outcome = NoOutcome
    /\ config_lock = None
    /\ conns = [c \in Conns |-> NotConnected]
    /\ serving = None

roundFrame ==
    <<store, config, now, alive, req, ret, resp, written, replaced, target, prev,
      configured, taskVars, serverVars>>

\* to_bytes(&given)
Encode ==
    /\ op = "init"
    /\ given # NoValue
    /\ outcome' = to_bytes(given)
    /\ op' = "encode"
    /\ UNCHANGED <<given, input, decoded, roundFrame>>

\* from_bytes::<Value> of the bytes that to_bytes returned for a Value
DecodeEncoded ==
    /\ op = "encode"
    /\ decoded = NotDecoded
    /\ given \in RoundValues
    /\ outcome.st = "ok"
    /\ input' = outcome.out
    /\ decoded' = from_bytes(outcome.out)
    /\ op' = "decode"
    /\ UNCHANGED <<given, outcome, roundFrame>>

\* from_bytes::<Value> of a frame
DecodeFrame ==
    /\ op = "init"
    /\ given = NoValue
    /\ decoded' = from_bytes(input)
    /\ op' = "decode"
    /\ UNCHANGED <<given, outcome, input, roundFrame>>

\* to_bytes of the Value that from_bytes returned for the frame
EncodeDecoded ==
    /\ op = "decode"
    /\ given = NoValue
    /\ decoded.st = "ok"
    /\ given' = decoded.val
    /\ outcome' = to_bytes(decoded.val)
    /\ op' = "encode"
    /\ UNCHANGED <<input, decoded, roundFrame>>

NextRound == Encode \/ DecodeEncoded \/ DecodeFrame \/ EncodeDecoded

SpecRound == InitRound /\ [][NextRound]_vars

---------------------------------------------------------------------------
(* The ordering of Value, which is the ordering of the keys of the store:  *)
(* three Values are drawn, compared with one another, and the first two    *)
(* are put into an empty store as keys.                                    *)

OrdValues ==
    {VInt(-1), VInt(1), VBool(FALSE), VBool(TRUE),
     VString(None), Value_str(<<>>), Text("1"), Text("a"), Value_str(<<"a", "b">>),
     Text("B"),
     VArray(None), VArray(Some(<<>>)), VArray(Some(<<VInt(1)>>)),
     VArray(Some(<<VInt(1), VInt(-1)>>)), VArray(Some(<<VNull>>)),
     VMap(<<>>), VMap(<<<<VInt(1), VNull>>>>), VMap(<<<<VInt(1), VInt(1)>>>>),
     VNull}

InitOrd ==
    /\ store = {}
    /\ config = {}
    /\ now = 0
    /\ alive = TRUE
    /\ op = "init"
    /\ req = NoRequest
    /\ ret = NoRet
    /\ resp = NoResp
    /\ written = [k \in Keys |-> None]
    /\ replaced = None
    /\ input = <<>>
    /\ decoded = NotDecoded
    /\ target = TValue
    /\ prev = "none"
    /\ configured = [n \in Names |-> None]
    /\ lock = None
    /\ tasks = [t \in Tasks |-> Idle]
    /\ built = {}
    /\ given \in OrdValues \X OrdValues \X OrdValues
    /\ outcome = NoOutcome
    /\ config_lock = None
    /\ conns = [c \in Conns |-> NotConnected]
    /\ serving = None

\* a.cmp(&b) for the three values, in both directions
Compare ==
    /\ op = "init"
    /\ outcome' = [st |-> "cmp",
                   of |-> [i \in 1..3 |-> [j \in 1..3 |-> Value_cmp(given[i], given[j])]]]
    /\ op' = "cmp"
    /\ UNCHANGED <<store, config, now, alive, req, ret, resp, written, replaced,
                   input, decoded, target, prev, configured, taskVars, given,
                   serverVars>>

\* BTreeMap::insert as the tree does it: the entry of k is the one whose key
\* compares Equal to k; it keeps its key and takes the new value
insert_by_cmp(m, k, e) ==
    IF \E p \in m : Value_cmp(p.k, k) = Equal
    THEN {IF Value_cmp(p.k, k) = Equal THEN [k |-> p.k, e |-> e] ELSE p : p \in m}
    ELSE m \cup {[k |-> k, e |-> e]}

\* store.insert(a, e) and then store.insert(b, e) on the empty store
InsertKeys ==
    /\ op = "cmp"
    /\ store' = insert_by_cmp(insert_by_cmp({}, given[1], Entry_default),
                              given[2], Entry_default)
    /\ op' = "insert"
    /\ UNCHANGED <<config, now, alive, req, ret, resp, written, replaced,
                   input, decoded, target, prev, configured, taskVars, given,
                   outcome, serverVars>>

NextOrd == Compare \/ InsertKeys

SpecOrd == InitOrd /\ [][NextOrd]_vars

---------------------------------------------------------------------------
(* Concurrent callers of one App.  Each task calls set, get or             *)
(* prune_expired; a call takes the store Mutex, works on the map in steps  *)
(* that other tasks and the clock may interleave with, and drops the guard *)
(* when it returns.  The position of a task:                               *)
(*   idle -> set_lock -> set_new -> set_insert -> ret -> idle              *)
(*   idle -> get_lock -> get_read -> get_expired -> get_ret -> idle        *)
(*   idle -> prune_lock -> prune_scan -> prune_remove -> ret -> idle       *)

\* the arguments of the set calls of the tasks
TaskSets ==
    {<<K1, Text("v")>>, <<K1, Text("w"), T_px, T_0>>, <<K1, Text("v"), T_px, T_1>>}

\* Mutex::lock returns when no guard is out; a lock that never waits
can_lock_Always(l) == TRUE

can_lock(l) == l = None

\* what a get of k gives on the map m at the clock reading t
Visible(m, k, t) ==
    LET found == BTreeMap_get(m, k)
    IN  IF found = None \/ Entry_is_expired(found[1], t) THEN VNull
        ELSE found[1].value

\* history: every get that has not yet decided its result takes note of what
\* is visible under its key now that the map is m and the clock reads t
Observe(ts, m, t) ==
    [x \in Tasks |->
        IF ts[x].pc \in {"get_lock", "get_read", "get_expired"}
        THEN [ts[x] EXCEPT !.seen = @ \cup {Visible(m, ts[x].k, t)}]
        ELSE ts[x]]

\* App::set is called: SetArgs::from_args, before the lock is taken
CallSet(t, argv) ==
    /\ tasks[t].pc = "idle"
    /\ SetArgs_from_args(argv).ok
    /\ tasks' = [tasks EXCEPT ![t] =
                    [pc |-> "set_lock", args |-> SetArgs_from_args(argv).val]]
    /\ UNCHANGED <<store, now, lock, built>>

\* App::get is called with one argument
CallGet(t, k) ==
    /\ tasks[t].pc = "idle"
    /\ tasks' = [tasks EXCEPT ![t] =
                    [pc |-> "get_lock", k |-> k, seen |-> {Visible(store, k, now)}]]
    /\ UNCHANGED <<store, now, lock, built>>

\* App::prune_expired is called
CallPrune(t) ==
    /\ tasks[t].pc = "idle"
    /\ tasks' = [tasks EXCEPT ![t] = [pc |-> "prune_lock"]]
    /\ UNCHANGED <<store, now, lock, built>>

\* self.store.lock()
Lock(t) ==
    /\ tasks[t].pc \in {"set_lock", "get_lock", "prune_lock"}
    /\ can_lock(lock)
    /\ lock' = Some(t)
    /\ tasks' = [tasks EXCEPT ![t].pc =
                    CASE @ = "set_lock" -> "set_new"
                      [] @ = "get_lock" -> "get_read"
                      [] @ = "prune_lock" -> "prune_scan"]
    /\ UNCHANGED <<store, now, built>>

\* Entry::new(args.val), and entry.expires_in(expiry), which reads the clock
SetNew(t) ==
    /\ tasks[t].pc = "set_new"
    /\ LET args == tasks[t].args
           ms == ExpiryAsU128(args.expiry)
           e0 == Entry_new(args.val)
           entry == IF ms # None THEN Entry_expires_in(e0, ms[1], now) ELSE e0
       IN  /\ tasks' = [tasks EXCEPT ![t] =
                           [pc |-> "set_insert", args |-> args, entry |-> entry]]
           /\ built' = built \cup {[k |-> args.key, e |-> entry]}
    /\ UNCHANGED <<store, now, lock>>

\* map.insert(args.key, entry)
SetInsert(t) ==
    /\ tasks[t].pc = "set_insert"
    /\ store' = BTreeMap_insert(store, tasks[t].args.key, tasks[t].entry)
    /\ tasks' = Observe([tasks EXCEPT ![t] = [pc |-> "ret"]], store', now)
    /\ UNCHANGED <<now, lock, built>>

\* map.get(k).cloned().unwrap_or_default()
GetRead(t) ==
    /\ tasks[t].pc = "get_read"
    /\ LET found == BTreeMap_get(store, tasks[t].k)
           v == IF found = None THEN Entry_default ELSE found[1]
       IN  tasks' = [tasks EXCEPT ![t] =
                        [pc |-> "get_expired", k |-> tasks[t].k,
                         seen |-> tasks[t].seen, v |-> v]]
    /\ UNCHANGED <<store, now, lock, built>>

\* v.is_expired(), which reads the clock, and the result of get
GetExpired(t) ==
    /\ tasks[t].pc = "get_expired"
    /\ LET v == tasks[t].v
           result == IF Entry_is_expired(v, now) THEN Ok(VNull) ELSE Ok(v.value)
       IN  tasks' = [tasks EXCEPT ![t] =
                        [pc |-> "get_ret", k |-> tasks[t].k, seen |-> tasks[t].seen,
                         result |-> result]]
    /\ UNCHANGED <<store, now, lock, built>>

\* the filter_map of prune_expired over the entries: is_expired reads the
\* clock once for each, and the clock may move meanwhile
PruneScan(t) ==
    /\ tasks[t].pc = "prune_scan"
    /\ \E end \in now..MaxTime :
         \E reading \in [store -> now..end] :
            /\ now' = end
            /\ tasks' = Observe([tasks EXCEPT ![t] =
                                    [pc |-> "prune_remove",
                                     expired |-> expired_keys(store, reading)]],
                                store, end)
    /\ UNCHANGED <<store, lock, built>>

\* for e in expired { store.remove(&e) }
PruneRemove(t) ==
    /\ tasks[t].pc = "prune_remove"
    /\ store' = {p \in store : p.k \notin tasks[t].expired}
    /\ tasks' = Observe([tasks EXCEPT ![t] = [pc |-> "ret"]], store', now)
    /\ UNCHANGED <<now, lock, built>>

\* the call returns and its MutexGuard is dropped
Return(t) ==
    /\ tasks[t].pc \in {"ret", "get_ret"}
    /\ lock' = None
    /\ tasks' = [tasks EXCEPT ![t] = Idle]
    /\ UNCHANGED <<store, now, built>>

\* the wall clock moves forward while tasks are in their calls
ClockMoves ==
    /\ now < MaxTime
    /\ now' = now + 1
    /\ tasks' = Observe(tasks, store, now')
    /\ UNCHANGED <<store, lock, built>>

TaskStep(t) ==
    \/ \E argv \in TaskSets : CallSet(t, argv)
    \/ CallGet(t, K1)
    \/ CallPrune(t)
    \/ Lock(t)
    \/ SetNew(t)
    \/ SetInsert(t)
    \/ GetRead(t)
    \/ GetExpired(t)
    \/ PruneScan(t)
    \/ PruneRemove(t)
    \/ Return(t)

NextTasks ==
    /\ \/ \E t \in Tasks : TaskStep(t)
       \/ ClockMoves
    /\ UNCHANGED <<config, alive, op, req, ret, resp, written, replaced, prev,
                   configured, codecVars, config_lock, serverVars>>

SpecTasks == Init /\ [][NextTasks]_vars

---------------------------------------------------------------------------
(* Concurrent callers of set, get, prune_expired, config set and config    *)
(* get on one App, with the lock of the settings beside that of the store. *)
(* A config call:                                                          *)
(*   idle -> config_lock -> config_insert | config_get -> config_drop      *)
(*        -> idle                                                          *)
(* The threads of the runtime are scheduled fairly, and a parking_lot      *)
(* Mutex hands the lock to a thread that keeps waiting for it.             *)

\* the guard goes out of scope; a guard that is leaked and never drops
drop_guard_Leaked(l) == l

drop_guard(l) == None

\* App::config is called with [set, name, val] or [get, name]:
\* ConfigArgs::from_args, before the lock is taken
CallConfig(t, argv) ==
    /\ tasks[t].pc = "idle"
    /\ ConfigArgs_from_args(argv).ok
    /\ tasks' = [tasks EXCEPT ![t] =
                    [pc |-> "config_lock", config_args |-> ConfigArgs_from_args(argv).val]]
    /\ UNCHANGED <<config, config_lock>>

\* self.config.lock()
LockConfig(t) ==
    /\ tasks[t].pc = "config_lock"
    /\ can_lock(config_lock)
    /\ config_lock' = Some(t)
    /\ tasks' = [tasks EXCEPT ![t].pc =
                    IF tasks[t].config_args[1] = "Get" THEN "config_get" ELSE "config_insert"]
    /\ UNCHANGED config

\* App::set_config: .insert(key, value) on the locked map
ConfigInsert(t) ==
    /\ tasks[t].pc = "config_insert"
    /\ config' = App_set_config(config, tasks[t].config_args[2], tasks[t].config_args[3])
    /\ tasks' = [tasks EXCEPT ![t] = [pc |-> "config_drop", result |-> Value_str(S_OK)]]
    /\ UNCHANGED config_lock

\* App::config, Get: .get(&k).cloned() on the locked map
ConfigGet(t) ==
    /\ tasks[t].pc = "config_get"
    /\ tasks' = [tasks EXCEPT ![t] =
                    [pc |-> "config_drop",
                     result |-> VArray(Some(<<VString(Some(tasks[t].config_args[2])),
                                             VString(BTreeMap_get(config,
                                                                  tasks[t].config_args[2]))>>))]]
    /\ UNCHANGED <<config, config_lock>>

\* the statement that locked ends: the temporary guard is dropped, and the
\* call returns its result
ConfigDrop(t) ==
    /\ tasks[t].pc = "config_drop"
    /\ config_lock' = drop_guard(config_lock)
    /\ tasks' = [tasks EXCEPT ![t] = Idle]
    /\ UNCHANGED config

\* the arguments of the calls of the tasks
LockSets == {<<K1, Text("v")>>}
LockConfigs == {<<T_set, T_d, T_a>>, <<T_get, T_d>>}

lockFrame ==
    <<alive, op, req, ret, resp, written, replaced, prev, configured, codecVars,
      serverVars>>
storeFrame == <<store, now, lock, built>>
configFrame == <<config, config_lock>>

\* a task calls a handler
Call(t) ==
    \/ /\ \/ \E argv \in LockSets : CallSet(t, argv)
          \/ CallGet(t, K1)
          \/ CallPrune(t)
       /\ UNCHANGED <<configFrame, lockFrame>>
    \/ /\ \E argv \in LockConfigs : CallConfig(t, argv)
       /\ UNCHANGED <<storeFrame, lockFrame>>

\* a task gets the lock it waits for
Acquire(t) ==
    \/ Lock(t) /\ UNCHANGED <<configFrame, lockFrame>>
    \/ LockConfig(t) /\ UNCHANGED <<storeFrame, lockFrame>>

\* a task that is inside a handler and does not wait for a lock goes on
Proceed(t) ==
    \/ /\ \/ SetNew(t)
          \/ SetInsert(t)
          \/ GetRead(t)
          \/ GetExpired(t)
          \/ PruneScan(t)
          \/ PruneRemove(t)
          \/ Return(t)
       /\ UNCHANGED <<configFrame, lockFrame>>
    \/ /\ \/ ConfigInsert(t)
          \/ ConfigGet(t)
          \/ ConfigDrop(t)
       /\ UNCHANGED <<storeFrame, lockFrame>>

NextLocks == \E t \in Tasks : Call(t) \/ Acquire(t) \/ Proceed(t)

FairLocks == \A t \in Tasks : WF_vars(Proceed(t)) /\ SF_vars(Acquire(t))

SpecLocks == Init /\ [][NextLocks]_vars /\ FairLocks

---------------------------------------------------------------------------
(* server.rs: the accept loop of main and handle_connection.  A client     *)
(* connects (the connection waits in the backlog of the listener until     *)
(* main accepts it), sends a request when none of its requests is unread,  *)
(* and closes when it likes.  A request is a frame that decodes as a Value *)
(* or bytes that do not.  main awaits handle_connection inside its loop.   *)
(* The runtime runs main whenever it can go on; a client owes nothing.     *)

RequestKinds == {"frame", "garbage"}

serverFrame ==
    <<store, config, now, alive, op, req, ret, resp, written, replaced, prev,
      configured, codecVars, taskVars>>

\* a client opens a connection to the listener
Connect(c) ==
    /\ conns[c].st = "none"
    /\ conns' = [conns EXCEPT ![c].st = "queued"]
    /\ UNCHANGED <<serving, serverFrame>>

\* a client writes a request to its connection
Send(c, r) ==
    /\ conns[c].st \in {"queued", "open"}
    /\ ~conns[c].closed
    /\ conns[c].unread = None
    /\ conns' = [conns EXCEPT ![c].unread = Some(r), ![c].answered = FALSE]
    /\ UNCHANGED <<serving, serverFrame>>

\* a client closes its connection
Close(c) ==
    /\ conns[c].st \in {"queued", "open"}
    /\ ~conns[c].closed
    /\ conns' = [conns EXCEPT ![c].closed = TRUE]
    /\ UNCHANGED <<serving, serverFrame>>

\* a client whose connection the server has dropped may connect again
Forget(c) ==
    /\ conns[c].st = "done"
    /\ conns' = [conns EXCEPT ![c] = NotConnected]
    /\ UNCHANGED <<serving, serverFrame>>

\* main: listener.accept().await, then handle_connection(socket).await
Accept(c) ==
    /\ serving = None
    /\ conns[c].st = "queued"
    /\ conns' = [conns EXCEPT ![c].st = "open"]
    /\ serving' = Some(c)
    /\ UNCHANGED serverFrame

\* handle_connection: try_read gives Ok(n), the bytes decode, the command is
\* dispatched and the response written
Answer(c) ==
    /\ serving = Some(c)
    /\ conns[c].unread = Some("frame")
    /\ conns' = [conns EXCEPT ![c].unread = None, ![c].answered = TRUE]
    /\ UNCHANGED <<serving, serverFrame>>

\* handle_connection: try_read gives Ok(n) and from_bytes fails: the ? returns
\* the error to main, which prints it and goes back to accept
Reject(c) ==
    /\ serving = Some(c)
    /\ conns[c].unread = Some("garbage")
    /\ conns' = [conns EXCEPT ![c].unread = None, ![c].st = "done"]
    /\ serving' = None
    /\ UNCHANGED serverFrame

\* handle_connection: try_read gives Ok(0), the peer has closed: break
Hangup(c) ==
    /\ serving = Some(c)
    /\ conns[c].unread = None
    /\ conns[c].closed
    /\ conns' = [conns EXCEPT ![c].st = "done"]
    /\ serving' = None
    /\ UNCHANGED serverFrame

\* a step of main
ServerStep == \E c \in Conns : Accept(c) \/ Answer(c) \/ Reject(c) \/ Hangup(c)

\* a step of a client
ClientStep ==
    \E c \in Conns :
        \/ Connect(c)
        \/ \E r \in RequestKinds : Send(c, r)
        \/ Close(c)
        \/ Forget(c)

NextServer == ServerStep \/ ClientStep

\* main goes on whenever it can: it reads what the connection it serves has
\* to read, and between two connections it accepts the one that has waited
\* longest, so that no connection waits in the backlog for ever while others
\* are accepted
FairServer ==
    \A c \in Conns :
        /\ WF_vars(Answer(c) \/ Reject(c) \/ Hangup(c))
        /\ SF_vars(Accept(c))

SpecServer == Init /\ [][NextServer]_vars /\ FairServer

---------------------------------------------------------------------------
(* Claims about the command engine. *)

\* the last operation was a dispatch of get [k]
GotKey(k) == op = "dispatch" /\ IsVerb(req, S_get) /\ Argv(req) = <<k>>

\* the last operation was a dispatch of set on key k that returned OK
DidSet(k) ==
    /\ op = "dispatch" /\ IsVerb(req, S_set) /\ ret.ok
    /\ Argv(req)[1] = k

\* the last set on k that returned OK had the arguments [k, v, PX, text]
LastSetPx(k, text) ==
    /\ written[k] # None
    /\ Len(written[k][1]) = 4
    /\ IsPx(written[k][1][3])
    /\ written[k][1][4] = Value_str(text)

\* C1: once set [k, v] without PX has returned OK, every following get [k]
\* returns v, whatever happened on other keys, in the settings, to the clock
\* or by prune sweeps, as long as no later set on k returned OK.
C1_SetThenGet ==
    \A k \in Keys :
        (GotKey(k) /\ written[k] # None /\ Len(written[k][1]) = 2)
            => ret = Ok(written[k][1][2])

\* a get of the first key returns the value set without PX, after a set on the
\* other key, a config set and a move of the clock
C1_Witness ==
    /\ GotKey(K1)
    /\ written[K1] = Some(<<K1, Text("w")>>)
    /\ ret = Ok(Text("w"))
    /\ resp = Frame(<<"+", "w", CR, LF>>)
    /\ written[K2] # None
    /\ config # {}
    /\ now > 0

\* C2: after set [k, v, PX, 0] has returned, every get [k], issued after
\* whatever time has elapsed, returns Null.
C2_Px0ThenGetNull ==
    \A k \in Keys : (GotKey(k) /\ LastSetPx(k, <<"0">>)) => ret = Ok(VNull)

\* C3: get [k] of a key that is absent from the store completes with a Null
\* result: a response frame, never an error and never no response.
C3_GetAbsentResponds ==
    \A k \in Keys :
        (GotKey(k) /\ BTreeMap_get(store, k) = None)
            => (ret = Ok(VNull) /\ resp.kind = "frame")

\* C4: no request handed to dispatch_command ends the process: every dispatch
\* returns a value frame or an error line.
C4_DispatchAlwaysResponds ==
    op = "dispatch" => (alive /\ resp.kind \in {"frame", "error"})

\* C6: get leaves the store as it was, whether the key is absent, live or
\* expired; an entry leaves the store only by a prune sweep or by a set on
\* its key.
C6_GetLeavesStore ==
    [][ /\ (op' = "dispatch" /\ IsVerb(req', S_get)) => store' = store
        /\ \A p \in store :
              p \notin store'
                => \/ op' = "prune"
                   \/ op' = "dispatch" /\ IsVerb(req', S_set) /\ ret'.ok
                        /\ Argv(req')[1] = p.k ]_vars

\* get returned Null for an entry that has expired, and the entry is still there
C6_Witness ==
    \E p \in store :
        /\ GotKey(p.k)
        /\ Entry_is_expired(p.e, now)
        /\ ret = Ok(VNull)

\* C7: a prune sweep removes the entries whose expiry is set and has passed
\* at the time of the sweep, and only those: every entry it removes had an
\* expiry before the clock at the end of the sweep, every entry with no expiry
\* or with an expiry not before the clock at the start of the sweep stays as
\* it is, and nothing is added.  (now = now': exactly the expired entries.)
C7_PruneExactlyExpired ==
    [][ op' = "prune"
          => /\ store' \subseteq store
             /\ \A p \in store :
                  /\ p \notin store' => (p.e.expiry # None /\ p.e.expiry[1] < now')
                  /\ (p.e.expiry = None \/ p.e.expiry[1] >= now') => p \in store'
                  /\ (p.e.expiry # None /\ p.e.expiry[1] < now) => p \notin store'
      ]_vars

\* a sweep has removed the expired entry of the second key and has kept an
\* entry of the first key whose expiry has not passed
C7_Witness ==
    /\ op = "prune"
    /\ written[K2] # None /\ BTreeMap_get(store, K2) = None
    /\ \E p \in store : p.k = K1 /\ p.e.expiry # None /\ p.e.expiry[1] >= now

\* C8: a set replaces the whole entry of its key: once set [k, v] without PX
\* has returned OK the store holds for k the value v with no expiry, whatever
\* entry k had before, until the next set on k; and the store never holds two
\* entries for one key.
C8_SetReplacesEntry ==
    /\ \A p, q \in store : p.k = q.k => p = q
    /\ \A k \in Keys :
          (written[k] # None /\ Len(written[k][1]) = 2)
              => {p \in store : p.k = k}
                    = {[k |-> k, e |-> Entry(written[k][1][2], None)]}

\* set [k, w] has replaced an entry of k that held another value with an expiry
C8_Witness ==
    /\ DidSet(K1)
    /\ Argv(req) = <<K1, Text("w")>>
    /\ replaced = Some([value |-> Text("v"), expiring |-> TRUE])
    /\ BTreeMap_get(store, K1) = Some(Entry(Text("w"), None))

\* C9: set [k, v, PX, ms] stores the entry with expiry = now + ms, for every
\* integer ms, zero and negative ones included.
C9_ExpiryIsNowPlusMs ==
    \A k \in Keys : \A ms \in -1..1 :
        (DidSet(k) /\ Len(Argv(req)) = 4 /\ IsPx(Argv(req)[3])
            /\ Argv(req)[4] = Value_str(IntToChars(ms)))
          => BTreeMap_get(store, k) = Some(Entry(Argv(req)[2], Some(now + ms)))

\* an argument that is an integer: an Int, or text that reads as one
IsIntegerArg(a) ==
    \/ a.tag = "Int"
    \/ a.tag = "String" /\ a.str # None /\ parse_i64(a.str[1]) # None

\* a PX modifier among the arguments after the value with no integer behind it
PxWithoutInteger(args) ==
    \E i \in 3..Len(args) :
        /\ IsPx(args[i])
        /\ (i = Len(args) \/ ~IsIntegerArg(args[i + 1]))

IsErrorLine(r, category) == r.kind = "error" /\ r.bytes[2] = category

\* C10: set answers with a WRONGTYPE line exactly when a PX modifier is there
\* with no integer behind it (PX last, or PX before a non-integer).
C10_TypeErrorIffPxWithoutInteger ==
    (op = "dispatch" /\ IsVerb(req, S_set) /\ Len(Argv(req)) >= 2)
        => (IsErrorLine(resp, "WRONGTYPE") <=> PxWithoutInteger(Argv(req)))

---------------------------------------------------------------------------
(* Claims about requests on one connection. *)

\* the verb of a request whose first element is a present text
HasVerb(r) ==
    /\ r.tag = "Array" /\ r.arr # None /\ r.arr[1] # <<>>
    /\ r.arr[1][1].tag = "String" /\ r.arr[1][1].str # None

VerbOf(r) == r.arr[1][1].str[1]

\* the sub-verb of a config request, lower-cased, when it is a text
SubVerb(args) ==
    IF args # <<>> /\ get_str(args[1]) # None
    THEN Some(to_lowercase(get_str(args[1])[1]))
    ELSE None

\* the request has a number of arguments its verb does not take, or is a
\* config with no sub-verb or with one that is neither get nor set
ArityViolation(r) ==
    /\ HasVerb(r)
    /\ LET verb == to_lowercase(VerbOf(r))
           args == Argv(r)
       IN  \/ verb = S_set /\ Len(args) < 2
           \/ verb \in {S_get, S_echo} /\ Len(args) # 1
           \/ verb = S_config /\ args = <<>>
           \/ verb = S_config /\ SubVerb(args) # None
                /\ SubVerb(args)[1] \notin {S_get, S_set}
           \/ verb = S_config /\ SubVerb(args) = Some(S_get) /\ Len(args) # 2
           \/ verb = S_config /\ SubVerb(args) = Some(S_set) /\ Len(args) # 3

\* C11: every request with an arity violation (set without key or value, get
\* or echo with other than one argument, config get with other than one,
\* config set with other than two, config with no or an unknown sub-verb) is
\* answered with an INVALIDREQ error line.
C11_ArityViolationIsInvalidReq ==
    (op = "dispatch" /\ ArityViolation(req)) => IsErrorLine(resp, "INVALIDREQ")

\* the last operation was a dispatch of config get [n]
GotConfig(n) ==
    /\ op = "dispatch" /\ IsVerb(req, S_config)
    /\ Len(Argv(req)) = 2 /\ SubVerb(Argv(req)) = Some(S_get)
    /\ Argv(req)[2] = Value_str(n)

\* what config get [n] answers when the last value set for n is o
ConfigPair(n, o) == VArray(Some(<<Value_str(n), VString(o)>>))
ConfigPairFrame(n, o) ==
    SeqFrame(<<TextFrame(n), IF o = None THEN AbsentFrame ELSE TextFrame(o[1])>>)

\* C12: config get [name] returns the sequence [name, value] of the last
\* config set [name, value] that returned OK, whatever was set for other
\* names in between, and [name, absent text] for a name that was never set;
\* the response is the frame of that sequence.
C12_ConfigGetReturnsLastSet ==
    \A n \in Names :
        GotConfig(n)
            => /\ ret = Ok(ConfigPair(n, configured[n]))
               /\ resp = Frame(ConfigPairFrame(n, configured[n]))

\* config get [d] answers [d, b] after d was set to b and e was set as well
C12_Witness ==
    /\ GotConfig(<<"d">>)
    /\ configured[<<"d">>] = Some(<<"b">>)
    /\ configured[<<"e">>] # None
    /\ resp = Frame(<<"*", "2", CR, LF, "+", "d", CR, LF, "+", "b", CR, LF>>)

\* the handler that answers to a lower-cased verb, called on the arguments
HandlerOf(low, args, m, c, t) ==
    CASE low = S_ping -> App_ping(m, c)
      [] low = S_echo -> App_echo(m, c, args)
      [] low = S_set -> App_set(m, c, args, t)
      [] low = S_get -> App_get(m, c, args, t)
      [] low = S_config -> App_config(m, c, args)

\* C13: a request whose verb is ping, echo, set, get or config in any letter
\* case gets what the handler of that verb returns on its arguments, with
\* the store and the settings that handler leaves; a request with any other
\* verb gets the line -UNKNOWN followed by the verb as it was sent, and
\* changes nothing.
C13_VerbCaseInsensitive ==
    [][ (op' = "dispatch" /\ HasVerb(req'))
          => LET verb == VerbOf(req')
                 low == to_lowercase(verb)
             IN  IF low \in {S_ping, S_echo, S_set, S_get, S_config}
                 THEN LET h == HandlerOf(low, Argv(req'), store, config, now)
                      IN  /\ ret' = h.ret
                          /\ resp' = dispatch_response(h.ret)
                          /\ store' = h.store
                          /\ config' = h.config
                 ELSE /\ resp' = [kind |-> "error",
                                  bytes |-> <<"-", "UNKNOWN", " ">> \o verb \o CRLF]
                      /\ store' = store
                      /\ config' = config ]_vars

\* SET in capitals has replaced the value of the key
C13_Witness ==
    /\ op = "dispatch"
    /\ req = Request(<<"S", "E", "T">>, <<K1, Text("w")>>)
    /\ resp = Frame(<<"+", "O", "K", CR, LF>>)
    /\ replaced = Some([value |-> Text("v"), expiring |-> FALSE])
    /\ BTreeMap_get(store, K1) = Some(Entry(Text("w"), None))

Categories == {"FAILURE", "ERR", "INVALIDREQ", "UNKNOWN", "WRONGTYPE"}

\* one line "-" CATEGORY " " message CRLF
ErrorLineForm(b) ==
    /\ Len(b) >= 5
    /\ b[1] = "-" /\ b[2] \in Categories /\ b[3] = " "
    /\ b[Len(b) - 1] = CR /\ b[Len(b)] = LF
    /\ ~contains_crlf(SubSeq(b, 1, Len(b) - 1))

\* the response a request of ValidRequests gets, by the sets and config sets
\* that returned OK before it; a get of a key that was never set is left out
Expected(r) ==
    LET verb == VerbOf(r)
        args == Argv(r)
    IN  CASE verb = S_ping -> Some(<<"+", "P", "O", "N", "G", CR, LF>>)
          [] verb = S_echo -> Some(TextFrame(args[1].str[1]))
          [] verb = S_set -> Some(<<"+", "O", "K", CR, LF>>)
          [] verb = S_get ->
                IF written[args[1]] = None THEN None
                ELSE Some(TextFrame(written[args[1]][1][2].str[1]))
          [] verb = S_config /\ args[1] = T_set -> Some(<<"+", "O", "K", CR, LF>>)
          [] verb = S_config /\ args[1] = T_get ->
                Some(ConfigPairFrame(args[2].str[1], configured[args[2].str[1]]))

VerbIn(r, verbs) == \E verb \in verbs : IsVerb(r, verb)

\* C28: ping, echo, set, get and prune_expired leave the settings as they
\* are, config get and config set leave the store as it is, and ping, echo,
\* get and config get change neither.
C28_CommandsKeepToTheirState ==
    [][/\ \/ config' = config
          \/ ~ \/ op' = "prune"
               \/ /\ op' = "dispatch"
                  /\ \/ VerbIn(req', {S_ping, S_echo, S_set, S_get})
                     \/ IsVerb(req', S_config) /\ SubVerb(Argv(req')) = Some(S_get)
       /\ \/ store' = store
          \/ ~ /\ op' = "dispatch"
               /\ VerbIn(req', {S_ping, S_echo, S_get, S_config})]_vars

\* config set [d, a] has returned OK with the setting in place and the store
\* holding the entry of an earlier set
C28_Witness ==
    /\ op = "dispatch"
    /\ req = Request(S_config, <<Value_str(S_set), Text("d"), Text("a")>>)
    /\ ret.ok
    /\ BTreeMap_get(config, <<"d">>) = Some(<<"a">>)
    /\ BTreeMap_get(store, K1) = Some(Entry_new(Text("v")))

\* C26: a request that is answered with an error line leaves the store and
\* the settings as they were before it; a set whose PX has no integer behind
\* it stores nothing and leaves the entry of its key as it was.
C26_ErrorsChangeNothing ==
    [][op' = "dispatch" /\ resp'.kind = "error" =>
            store' = store /\ config' = config]_vars

\* set [k, v, px, x] has been answered with a WRONGTYPE line while the key
\* holds w from an earlier set and a setting is in place
C26_Witness ==
    /\ op = "dispatch"
    /\ req = Request(S_set, <<K1, Text("v"), T_px, Text("x")>>)
    /\ IsErrorLine(resp, "WRONGTYPE")
    /\ BTreeMap_get(store, K1) = Some(Entry_new(Text("w")))
    /\ config # {}

---------------------------------------------------------------------------
(* Claims about concurrent callers. *)

\* the task is between taking the store lock and dropping its guard
InCall(t) ==
    tasks[t].pc \in {"set_new", "set_insert", "get_read", "get_expired", "get_ret",
                     "prune_scan", "prune_remove", "ret"}

\* C15: with several tasks calling set, get and prune_expired on one App,
\* the calls exclude each other while they work on the store; every get
\* returns what was visible under its key (the value of the most recent
\* set, or Null with no entry or an expired one) at some instant between its
\* call and its return; and every entry in the store, and every entry a get
\* has read, is an entry that one set has built, value and expiry together.
C15_StoreCallsAreAtomic ==
    /\ \A t, u \in Tasks : (InCall(t) /\ InCall(u)) => t = u
    /\ \A t \in Tasks : InCall(t) => lock = Some(t)
    /\ \A t \in Tasks :
          tasks[t].pc = "get_ret"
              => /\ tasks[t].result.ok
                 /\ tasks[t].result.val \in tasks[t].seen
    /\ \A p \in store : p \in built
    /\ \A t \in Tasks :
          tasks[t].pc = "get_expired"
              => \/ tasks[t].v = Entry_default
                 \/ [k |-> tasks[t].k, e |-> tasks[t].v] \in built

\* a get, called on an empty store, has taken the lock after another task's
\* set and returns the value of that set, while the other task waits for the
\* lock with its next set
C15_Witness ==
    /\ tasks["t1"].pc = "get_ret"
    /\ tasks["t1"].seen = {VNull, Text("v")}
    /\ tasks["t1"].result = Ok(Text("v"))
    /\ tasks["t2"].pc = "set_lock"
    /\ lock = Some("t1")

\* C27: a prune sweep that runs while other tasks call set removes only
\* entries that are expired at the moment it removes them: an entry that a
\* set has put under a key whose earlier entry had expired is not removed.
C27_PruneRemovesOnlyExpired ==
    [][\A t \in Tasks :
          tasks[t].pc = "prune_remove" /\ tasks'[t].pc = "ret" =>
              \A p \in store \ store' : Entry_is_expired(p.e, now')]_vars

\* the first task's sweep has removed the expired entry of the key and is
\* about to return, while the second task waits for the lock to set the key
\* with no expiry
C27_Witness ==
    /\ tasks["t1"].pc = "ret"
    /\ lock = Some("t1")
    /\ store = {}
    /\ \E b \in built : b.k = K1 /\ Entry_is_expired(b.e, now)
    /\ tasks["t2"].pc = "set_lock"
    /\ tasks["t2"].args.key = K1
    /\ tasks["t2"].args.expiry = None

\* the locks that task t holds
Held(t) ==
    (IF lock = Some(t) THEN {"store"} ELSE {})
        \cup (IF config_lock = Some(t) THEN {"config"} ELSE {})

\* C25: no task holds the store lock and the settings lock at once, a task
\* that is not inside a handler (where its future may be suspended) holds no
\* lock, and every call of a handler returns, however many tasks call at the
\* same time.
C25_LocksAreReleased ==
    /\ [](\A t \in Tasks :
            /\ Cardinality(Held(t)) <= 1
            /\ tasks[t].pc = "idle" => Held(t) = {})
    /\ \A t \in Tasks : (tasks[t].pc # "idle") ~> (tasks[t].pc = "idle")

\* the first task holds the store lock inside set and the second the settings
\* lock inside config set
C25_Witness ==
    /\ tasks["t1"].pc = "set_insert"
    /\ Held("t1") = {"store"}
    /\ tasks["t2"].pc = "config_insert"
    /\ Held("t2") = {"config"}

---------------------------------------------------------------------------
(* Claims about the decoder. *)

\* C5: decoding a well-formed sequence frame as a Value succeeds and yields
\* the present Array of the decoded elements in order, so a request frame
\* reaches the command engine as an Array.
C5_SequenceFrameDecodes ==
    /\ \A xs \in IntSeqs :
          (op = "decode" /\ input = IntSeqFrame(xs))
              => (decoded.st = "ok" /\ decoded.val = IntSeqValue(xs))
    /\ (op = "dispatch" /\ input \in RequestFrames) => req.tag = "Array"
    /\ (op = "decode" /\ input \in RequestFrames) => decoded.st = "ok"

\* C16: from_bytes succeeds only with the whole buffer consumed by one
\* value: a frame that is well formed for T decodes, and the same frame
\* followed by more bytes fails with TrailingCharacters at the offset of the
\* first byte after the frame.
C16_TrailingBytesRejected ==
    op = "decode"
        => /\ decoded.st = "ok" => decoded.pos = Len(input)
           /\ \A c \in WellFormed :
                 /\ (target = c[1] /\ input = c[2]) => decoded.st = "ok"
                 /\ \A r \in Rests :
                       (target = c[1] /\ input = c[2] \o r)
                           => decoded = DeErr(TrailingCharacters(Len(c[2])))

\* ":1\r\nX" decoded as an integer fails with trailing characters at 4
C16_Witness ==
    /\ op = "decode"
    /\ target = TInt
    /\ input = <<":", "1", CR, LF, "X">>
    /\ decoded = DeErr(TrailingCharacters(4))

\* C17: every strict prefix of a frame that is well formed for T, the empty
\* buffer included, decodes to the UnexpectedEof error and to nothing else.
C17_CutFrameIsEof ==
    op = "decode"
        => \A c \in WellFormed :
              (target = c[1] /\ input \in Prefixes(c[2]))
                  => decoded = DeErr(UnexpectedEof)

\* C18: a map frame whose input ends after a key, before the value of that
\* key, decodes to the MissingValue error.
C18_KeyWithoutValueIsMissingValue ==
    (op = "decode" /\ <<target, input>> \in KeyWithoutValue)
        => (decoded.st = "err" /\ decoded.err.e = "MissingValue")

\* C19: a negative count declared in the header of a '$', '*' or '%' frame,
\* decoded as a type that takes a text, a sequence or a map there, fails with
\* NegativeLength at the offset of the byte after the sigil, at top level
\* and inside other frames.
C19_NegativeCountRejected ==
    op = "decode"
        => \A c \in NegativeCounts :
              (target = c.ty /\ input = NegativeBuffer(c))
                  => decoded = DeErr(NegativeLength(Len(c.head) + 1))

\* the second text of a sequence of two declares the length -1, at offset 9
C19_Witness ==
    /\ op = "decode"
    /\ target = TVec(TString)
    /\ input = <<"*", "2", CR, LF, "+", "a", CR, LF, "$", "-", "1", CR, LF>>
    /\ decoded = DeErr(NegativeLength(9))

\* C20: the absent text and the absent sequence encode to "$-1\r\n", and
\* "$-1\r\n" decodes to the absent value as an Option<String> and as a Value.
C20_AbsentRoundTrips ==
    /\ to_bytes(VString(None)) = SerOk(AbsentFrame)
    /\ to_bytes(VArray(None)) = SerOk(AbsentFrame)
    /\ (op = "decode" /\ input = AbsentFrame /\ target = TOption(TString))
          => (decoded.st = "ok" /\ decoded.val = None)
    /\ (op = "decode" /\ input = AbsentFrame /\ target = TValue)
          => (decoded.st = "ok" /\ decoded.val \in {VString(None), VArray(None)})

---------------------------------------------------------------------------
(* Claims about the codec in both directions. *)

\* to_bytes has returned for a value of the data model, and no frame was decoded
\* before it
Encoded == op = "encode" /\ decoded = NotDecoded

\* C21: for every Value v of the data model (integer, boolean, present or
\* absent text, text with an embedded CRLF, present or absent sequence, map,
\* null) to_bytes(v) returns bytes and from_bytes of those bytes returns v.
C21_DecodeInvertsEncode ==
    given \in RoundValues =>
        /\ Encoded => outcome.st = "ok"
        /\ op = "decode" => decoded.st = "ok" /\ decoded.val = given

\* C22: for every well-formed frame f (simple text, bulk, integer, boolean,
\* sequence, map) from_bytes(f) returns a Value and to_bytes of that Value
\* returns f byte for byte.
C22_EncodeInvertsDecode ==
    /\ op = "decode" /\ given = NoValue => decoded.st = "ok"
    /\ op = "encode" /\ decoded # NotDecoded => outcome = SerOk(input)

\* C23: to_bytes fails in exactly two cases, with IntOverflow for a u64 above
\* i64::MAX and with LengthRequired for a sequence or map of unknown length;
\* for every other value (Null, absent optionals, nested sequences and maps
\* among them) it returns bytes.
C23_EncodeFailsInTwoCases ==
    Encoded =>
        IF given.tag = "U64" /\ exceeds_i64(given.digits)
        THEN outcome = SerErr(IntOverflow(given.digits))
        ELSE IF given.tag \in {"IterSeq", "IterMap"}
        THEN outcome = SerErr(LengthRequired)
        ELSE outcome.st = "ok"

---------------------------------------------------------------------------
(* Claims about the ordering of Value. *)

\* the variants in the order the claim gives them
VariantOrder == <<"Int", "Bool", "String", "Array", "Map", "Null">>
Position(v) == CHOOSE i \in DOMAIN VariantOrder : VariantOrder[i] = v.tag

\* what the comparison of the i-th with the j-th value gave
Cmp(i, j) == outcome.of[i][j]

\* C24: the ordering of Value is a total order: every two values compare as
\* Less, Equal or Greater, a value is Equal to itself, the two directions of
\* a comparison mirror each other, the order is transitive, and two values
\* compare Equal exactly when they are structurally equal.  A value of an
\* earlier variant (Integer < Boolean < Text < Array < Map < Null) is Less
\* than one of a later variant whatever they hold, and two keys of different
\* variants are two entries of the store.
C24_ValueOrderIsTotal ==
    op \in {"cmp", "insert"} =>
        /\ \A i, j \in 1..3 :
            /\ Cmp(i, j) \in {Less, Equal, Greater}
            /\ Cmp(i, i) = Equal
            /\ Cmp(i, j) = Less <=> Cmp(j, i) = Greater
            /\ Cmp(i, j) = Equal <=> given[i] = given[j]
            /\ Position(given[i]) < Position(given[j]) => Cmp(i, j) = Less
        /\ Cmp(1, 2) # Greater /\ Cmp(2, 3) # Greater => Cmp(1, 3) # Greater
        /\ op = "insert" =>
            /\ {p.k : p \in store} = {given[1], given[2]}
            /\ given[1].tag # given[2].tag => Cardinality(store) = 2

\* the integer 1 and the text "1" have been compared and put into the store:
\* the integer is Less, and they are two keys
C24_Witness ==
    /\ op = "insert"
    /\ given[1] = VInt(1)
    /\ given[2] = Text("1")
    /\ Cmp(1, 2) = Less
    /\ Cmp(2, 1) = Greater
    /\ Cardinality(store) = 2

---------------------------------------------------------------------------
(* Claims about the server loop. *)

\* a request that decodes is unread on a connection that the client has
\* opened
Waiting(c) == conns[c].st \in {"queued", "open"} /\ conns[c].unread = Some("frame")

\* C29: a request sent on a connection is answered in the end, also while
\* another connection that was opened earlier is still open, idle or
\* active: the server does not wait for that one to close.
C29_ConnectionsServedIndependently ==
    \A c \in Conns : Waiting(c) ~> conns[c].answered

====
